---- MODULE Spec2Model ----
(***************************************************************************)
(* TraceLite collector: the ingest handler (collector/internal/server),    *)
(* the trace reconstructor (collector/internal/reconstruct) and the store  *)
(* gateway (collector/internal/clickhouse), as a state machine.            *)
(*                                                                         *)
(* Time.  A time.Time is an integer number of ticks since the zero time;   *)
(* one millisecond is TicksPerMs ticks, so that instants finer than the    *)
(* millisecond exist and FormatCHTime really truncates.  The zero Time     *)
(* (IsZero) is the tick 0.  A formatted ClickHouse timestamp string        *)
(* ("2006-01-02 15:04:05.000") is represented by its millisecond count.    *)
(*                                                                         *)
(* uint32.  TLC's integers are 32 bits wide and signed, so a uint32 is     *)
(* kept as its 32-bit pattern read as a two's complement number: the       *)
(* values 0 .. 2^31-1 are themselves, the values 2^31 .. 2^32-1 are        *)
(* v - 2^32.  U32Add and U32Sub wrap modulo 2^32 and U32Lt compares the    *)
(* unsigned values, exactly as Go does.                                    *)
(***************************************************************************)
EXTENDS Integers, Sequences, FiniteSets, TLC

VARIABLES
    traces,   \* Reconstructor.traces: trace id -> traceState
    now,      \* the wall clock, in ticks
    token,    \* Handler.token, the configured INGEST_TOKEN
    hist,     \* history: trace id -> the events (indexes) folded into its state
    out,      \* what the step handed to the store, if it was a FlushNow
    resp,     \* the response the step wrote, if it was an IngestLogs
    op,       \* the operation that produced the state
    cp,       \* one execution of criticalPath, step by step
    store,    \* the tables of the store, where the specification follows them
    proc,     \* main's position, the mutex, the goroutines inside Add and FlushNow
    api       \* the read API's last call: its name, its inputs and what it returned

vars == <<traces, now, token, hist, out, resp, op, cp, store, proc, api>>

(***************************************************************************)
(* Bounds of the model.                                                    *)
(***************************************************************************)
TicksPerMs == 2
WindowMs == 2
MaxEvents == 3
CPMaxDepth == 4
MaxCopies == 2

(***************************************************************************)
(* uint32 arithmetic.                                                      *)
(***************************************************************************)
MaxInt32 == 2147483647

MinInt32 == (-MaxInt32) - 1

U32Add(a, b) ==
    IF a > 0 /\ b > 0 /\ a > MaxInt32 - b
    THEN (a - MaxInt32 - 1) + (b - MaxInt32 - 1)
    ELSE IF a < 0 /\ b < 0 /\ a < MinInt32 - b
    THEN (a + MaxInt32 + 1) + (b + MaxInt32 + 1)
    ELSE a + b

U32Sub(a, b) ==
    IF a >= 0 /\ b < 0 /\ a > MaxInt32 + b
    THEN (a - MaxInt32 - 1) - (b + MaxInt32 + 1)
    ELSE IF a < 0 /\ b > 0 /\ a < MinInt32 + b
    THEN (a + MaxInt32 + 1) - (b - MaxInt32 - 1)
    ELSE a - b

U32Lt(a, b) == IF (a >= 0) = (b >= 0) THEN a < b ELSE a >= 0

U32Le(a, b) == a = b \/ U32Lt(a, b)

(***************************************************************************)
(* Time.                                                                   *)
(***************************************************************************)
Ms(m) == m * TicksPerMs

IsZero(t) == t = 0

\* Duration.Milliseconds(): the integer millisecond count, truncated toward
\* zero.
Milliseconds(d) == IF d >= 0 THEN d \div TicksPerMs ELSE -((-d) \div TicksPerMs)

\* t.UTC().Format("2006-01-02 15:04:05.000"): the fraction below the
\* millisecond is dropped.
FormatCHTime(t) == t \div TicksPerMs

\* time.Parse of a string FormatCHTime produced.
parseCHTime(v) == v * TicksPerMs

MsPerMinute == 60000

\* t.UTC().Format("2006-01-02 15:04:00") of the parsed string: the minute the
\* timestamp lies in.
toMinute(chTS) == FormatCHTime(parseCHTime(chTS)) \div MsPerMinute

\* r.window, the configured TRACE_WINDOW.
Window == Ms(WindowMs)

(***************************************************************************)
(* Maps with a changing key set.                                           *)
(***************************************************************************)
Put(m, k, v) == [x \in (DOMAIN m) \cup {k} |-> IF x = k THEN v ELSE m[x]]

Without(m, ks) == [x \in (DOMAIN m) \ ks |-> m[x]]

EmptyMap == [x \in {} |-> 0]

(***************************************************************************)
(* Reconstructor.Add                                                       *)
(***************************************************************************)
chooseOperation(route, fallback) ==
    IF route # "" THEN route
    ELSE IF fallback # "" THEN fallback
    ELSE "unknown-op"

\* The traceState Add finds or creates for the row.
traceOf(tr, row) ==
    IF row.TraceID \in DOMAIN tr
    THEN tr[row.TraceID]
    ELSE [id |-> row.TraceID, env |-> row.Env, updatedAt |-> 0, spans |-> EmptyMap]

\* The span id Add files the row under.
spanIDOf(row, ts) ==
    IF row.SpanID = "" THEN "implicit-" \o ToString(FormatCHTime(ts)) ELSE row.SpanID

\* The spanState Add finds or creates for the row.
spanOf(t, row, spanID) ==
    IF spanID \in DOMAIN t.spans
    THEN t.spans[spanID]
    ELSE [traceID |-> row.TraceID, spanID |-> spanID,
          parentSpanID |-> row.ParentSpanID, service |-> row.Service,
          env |-> row.Env, host |-> row.Host, version |-> row.Version,
          operation |-> chooseOperation(row.Route, row.Message),
          startTs |-> 0, endTs |-> 0, durationMs |-> 0,
          statusCode |-> 0, isError |-> FALSE, source |-> "explicit"]

\* Lines 93-114: the identity and status fields after the row.
foldFields(s, row) ==
    [s EXCEPT
       !.parentSpanID = IF row.ParentSpanID # "" THEN row.ParentSpanID ELSE @,
       !.service = IF @ = "" THEN row.Service ELSE @,
       !.version = IF @ = "" THEN row.Version ELSE @,
       !.host = IF @ = "" THEN row.Host ELSE @,
       !.operation = IF @ = "" THEN chooseOperation(row.Route, row.Message) ELSE @,
       !.isError = IF row.StatusCode >= 400 THEN TRUE ELSE @,
       !.statusCode = IF row.StatusCode > 0 THEN row.StatusCode ELSE @]

\* The end instant that replaces cur whatever cur is.
laterOverwritten(cur, ts) == ts

\* Lines 122-124 and 130-132: the end instant of a span whose end was cur,
\* after an event stamped ts.
later(cur, ts) == IF IsZero(cur) \/ ts > cur THEN ts ELSE cur

\* Lines 118-120 and 134-136: the same for the start instant.
earlier(cur, ts) == IF IsZero(cur) \/ ts < cur THEN ts ELSE cur

\* Lines 116-139: the timing fields after the row.
foldTiming(s, row, ts) ==
    CASE row.Event = "start" ->
           [s EXCEPT !.startTs = earlier(@, ts)]
      [] row.Event = "end" ->
           [s EXCEPT !.endTs = later(@, ts),
                     !.durationMs = IF row.DurationMs # 0 THEN row.DurationMs ELSE @]
      [] OTHER ->
           IF row.DurationMs # 0
           THEN LET candidateStart == ts - Ms(row.DurationMs)
                IN [s EXCEPT
                      !.endTs = later(@, ts),
                      !.startTs = earlier(@, candidateStart),
                      !.durationMs = row.DurationMs]
           ELSE s

\* One iteration of Add's loop: the trace map after folding row, stamped ts.
AddOne(tr, row, ts) ==
    LET t0 == traceOf(tr, row)
        t1 == [t0 EXCEPT !.updatedAt = IF ts > @ THEN ts ELSE @]
        spanID == spanIDOf(row, ts)
        s == foldTiming(foldFields(spanOf(t1, row, spanID), row), row, ts)
    IN Put(tr, row.TraceID, [t1 EXCEPT !.spans = Put(@, spanID, s)])

RECURSIVE Add(_, _, _)
Add(tr, rows, eventTimes) ==
    IF rows = <<>> THEN tr
    ELSE Add(AddOne(tr, Head(rows), Head(eventTimes)), Tail(rows), Tail(eventTimes))

(***************************************************************************)
(* finalizeSpans                                                           *)
(*                                                                         *)
(* Go ranges over a map in an unspecified order, and the loop of lines     *)
(* 213-271 writes startTs and endTs back into the span states it ranges    *)
(* over while it reads the states of each span's children: the order is an *)
(* input, ord, a sequence that lists every span id of the trace once.      *)
(***************************************************************************)
Perms(S) ==
    {f \in [1..Cardinality(S) -> S] : \A i, j \in 1..Cardinality(S) : f[i] = f[j] => i = j}

\* Lines 214-231: the timestamps that are still zero are filled in.
inferBounds(s, nowT) ==
    LET a == IF IsZero(s.startTs) /\ ~IsZero(s.endTs) /\ s.durationMs # 0
             THEN [s EXCEPT !.startTs = s.endTs - Ms(s.durationMs), !.source = "inferred"]
             ELSE s
        b == IF IsZero(a.endTs) /\ ~IsZero(a.startTs)
             THEN [a EXCEPT !.endTs = IF a.durationMs # 0
                                      THEN a.startTs + Ms(a.durationMs)
                                      ELSE a.startTs,
                            !.source = "inferred"]
             ELSE a
    IN IF IsZero(b.startTs)
       THEN [b EXCEPT !.startTs = nowT, !.endTs = nowT, !.source = "inferred"]
       ELSE b

\* Lines 233-239: an end before the start is pulled up to the start, but only
\* when no durationMs was reported.
clampEnd(s) ==
    IF s.durationMs = 0 /\ s.endTs < s.startTs THEN [s EXCEPT !.endTs = s.startTs] ELSE s

\* Lines 233-239: the duration_ms of the row.
rowDuration(s) ==
    IF s.durationMs = 0 THEN Milliseconds(s.endTs - s.startTs) ELSE s.durationMs

\* Lines 243-246: what a child adds to its parent's childTotal, read from the
\* child's state as it is at that moment.
childDur(child) ==
    IF child.durationMs = 0 /\ ~IsZero(child.startTs) /\ ~IsZero(child.endTs)
    THEN Milliseconds(child.endTs - child.startTs)
    ELSE child.durationMs

RECURSIVE childTotalOf(_, _)
childTotalOf(spans, ids) ==
    IF ids = {} THEN 0
    ELSE LET c == CHOOSE x \in ids : TRUE
         IN U32Add(childDur(spans[c]), childTotalOf(spans, ids \ {c}))

\* The subtraction of line 251 without the test of line 250.
selfTimeUnguarded(duration, childTotal) == U32Sub(duration, childTotal)

\* Lines 249-252.
selfTimeOf(duration, childTotal) ==
    IF U32Lt(childTotal, duration) THEN U32Sub(duration, childTotal) ELSE duration

\* Lines 254-270: the row of span state s; source is the loop's local, which
\* is never written back to the state.
spanRow(s, source, duration, selfTime) ==
    [TraceID |-> s.traceID, SpanID |-> s.spanID, ParentSpanID |-> s.parentSpanID,
     Service |-> s.service, Env |-> s.env, Host |-> s.host, Version |-> s.version,
     Operation |-> s.operation,
     StartTS |-> FormatCHTime(s.startTs), EndTS |-> FormatCHTime(s.endTs),
     DurationMs |-> duration, SelfTimeMs |-> selfTime,
     StatusCode |-> s.statusCode, IsError |-> IF s.isError THEN 1 ELSE 0,
     Source |-> source]

\* The rows of the spans ord lists, finalized in that order over the span
\* states cur.
RECURSIVE finalizeLoop(_, _, _)
finalizeLoop(cur, ord, nowT) ==
    IF ord = <<>> THEN <<>>
    ELSE LET id == Head(ord)
             f == clampEnd(inferBounds(cur[id], nowT))
             s == [f EXCEPT !.source = cur[id].source]
             next == [cur EXCEPT ![id] = s]
             duration == rowDuration(s)
             kids == {c \in DOMAIN next : next[c].parentSpanID = id}
             selfTime == selfTimeOf(duration, childTotalOf(next, kids))
         IN <<spanRow(s, f.source, duration, selfTime)>>
              \o finalizeLoop(next, Tail(ord), nowT)

finalizeSpans(t, ord, nowT) == finalizeLoop(t.spans, ord, nowT)

(***************************************************************************)
(* criticalPath                                                            *)
(*                                                                         *)
(* spans is the byID map (span id -> row) and children maps a span id to   *)
(* the sequence of the ids that name it as parent, in the order of the     *)
(* span slice.  dfs returns the score and the memo map it leaves behind;   *)
(* visiting is the set of the ids whose visiting flag is set.              *)
(***************************************************************************)
childrenOf(children, id) == IF id \in DOMAIN children THEN children[id] ELSE <<>>

RECURSIVE dfs(_, _, _, _, _)
RECURSIVE dfsChildren(_, _, _, _, _, _)

\* dfs that answers a span met again on the path it is on with that span's
\* duration.
dfsRevisiting(id, spans, children, memo, visiting) ==
    IF id \in DOMAIN memo THEN [v |-> memo[id], memo |-> memo]
    ELSE IF id \in visiting THEN [v |-> spans[id].DurationMs, memo |-> memo]
    ELSE LET r == dfsChildren(childrenOf(children, id), spans, children, memo,
                              visiting \cup {id}, 0)
             total == U32Add(spans[id].DurationMs, r.v)
         IN [v |-> total, memo |-> Put(r.memo, id, total)]

dfs(id, spans, children, memo, visiting) ==
    IF id \in DOMAIN memo THEN [v |-> memo[id], memo |-> memo]
    ELSE IF id \in visiting THEN [v |-> 0, memo |-> memo]
    ELSE LET r == dfsChildren(childrenOf(children, id), spans, children, memo,
                              visiting \cup {id}, 0)
             total == U32Add(spans[id].DurationMs, r.v)
         IN [v |-> total, memo |-> Put(r.memo, id, total)]

\* The loop of lines 345-350 that never looks at a child.
dfsChildrenSkipped(cs, spans, children, memo, visiting, bestChild) ==
    [v |-> bestChild, memo |-> memo]

\* Lines 345-350: the best score among the children cs, starting from
\* bestChild.
dfsChildren(cs, spans, children, memo, visiting, bestChild) ==
    IF cs = <<>> THEN [v |-> bestChild, memo |-> memo]
    ELSE LET r == dfs(Head(cs), spans, children, memo, visiting)
         IN dfsChildren(Tail(cs), spans, children, r.memo, visiting,
                        IF U32Lt(bestChild, r.v) THEN r.v ELSE bestChild)

\* Lines 358-367 and 369-373: dfs from each id of ids in turn, keeping the
\* best score.
RECURSIVE seedLoop(_, _, _, _, _)

\* The loop that keeps the score of the seed it visited last.
seedLoopLast(ids, spans, children, memo, best) ==
    IF ids = <<>> THEN [v |-> best, memo |-> memo]
    ELSE LET r == dfs(Head(ids), spans, children, memo, {})
         IN seedLoop(Tail(ids), spans, children, r.memo, r.v)

seedLoop(ids, spans, children, memo, best) ==
    IF ids = <<>> THEN [v |-> best, memo |-> memo]
    ELSE LET r == dfs(Head(ids), spans, children, memo, {})
         IN seedLoop(Tail(ids), spans, children, r.memo,
                     IF U32Lt(best, r.v) THEN r.v ELSE best)

\* Lines 359-363: the ids the first loop does not skip.
seedsOf(spans) ==
    {id \in DOMAIN spans :
        spans[id].ParentSpanID = "" \/ spans[id].ParentSpanID \notin DOMAIN spans}

\* criticalPath when the first range visits the seeds in the order o1 and the
\* second range, if it runs, visits the spans in the order o2.
criticalPath(spans, children, o1, o2) ==
    LET first == seedLoop(o1, spans, children, EmptyMap, 0)
    IN IF first.v = 0
       THEN seedLoop(o2, spans, children, first.memo, first.v).v
       ELSE first.v

(***************************************************************************)
(* buildTraceRow                                                           *)
(***************************************************************************)
Range(q) == {q[i] : i \in DOMAIN q}

\* Lines 286-292: the byID and children indexes of the span slice.
byIDOf(spans) == [id \in {r.SpanID : r \in Range(spans)} |->
                    (CHOOSE r \in Range(spans) : r.SpanID = id)]

idsNaming(spans, p) ==
    LET sel == SelectSeq(spans, LAMBDA r : r.ParentSpanID = p)
    IN [i \in 1..Len(sel) |-> sel[i].SpanID]

childIndexOf(spans) ==
    [p \in {r.ParentSpanID : r \in Range(spans)} \ {""} |-> idsNaming(spans, p)]

\* Lines 280-301: the earliest start, the service of the first span of the
\* slice that has it, and the latest end.
RECURSIVE scanBounds(_, _)
scanBounds(spans, acc) ==
    IF spans = <<>> THEN acc
    ELSE LET r == Head(spans)
             st == parseCHTime(r.StartTS)
             en == parseCHTime(r.EndTS)
         IN scanBounds(Tail(spans),
               [start |-> IF st < acc.start THEN st ELSE acc.start,
                rootService |-> IF st < acc.start THEN r.Service ELSE acc.rootService,
                end |-> IF en > acc.end THEN en ELSE acc.end])

\* The trace row of a non-empty span slice, with the ranges of criticalPath
\* taken in the orders o1 and o2.  Versions is the set that the sorted,
\* duplicate-free slice versionsOut enumerates.
buildTraceRow(env, traceID, spans, o1, o2) ==
    LET b == scanBounds(spans, [start |-> parseCHTime(spans[1].StartTS),
                                rootService |-> spans[1].Service,
                                end |-> parseCHTime(spans[1].EndTS)])
    IN [TraceID |-> traceID, Env |-> env, RootService |-> b.rootService,
        StartTS |-> FormatCHTime(b.start), EndTS |-> FormatCHTime(b.end),
        DurationMs |-> Milliseconds(b.end - b.start),
        SpanCount |-> Len(spans),
        ServiceCount |-> Cardinality({r.Service : r \in Range(spans)}),
        ErrorCount |-> Cardinality({r \in Range(spans) : r.IsError = 1}),
        CriticalPathMs |-> criticalPath(byIDOf(spans), childIndexOf(spans), o1, o2),
        Versions |-> {r.Version : r \in Range(spans)}]

(***************************************************************************)
(* accumulateEdges, collapseEdgeAgg                                        *)
(***************************************************************************)
edgeKeyOf(p, s) ==
    [bucket |-> toMinute(s.StartTS), env |-> s.Env,
     callerService |-> p.Service, calleeService |-> s.Service,
     callerVersion |-> p.Version, calleeVersion |-> s.Version]

\* Lines 397-423 for the rows rest of the slice spans: agg maps an edgeKey to
\* its edgeState.
RECURSIVE accumulateLoop(_, _, _)

\* The loop without the comparison of the two services at line 402.
accumulateLoopAnyService(byID, rest, agg) ==
    IF rest = <<>> THEN agg
    ELSE LET s == Head(rest)
         IN IF s.ParentSpanID = "" \/ s.ParentSpanID \notin DOMAIN byID
            THEN accumulateLoop(byID, Tail(rest), agg)
            ELSE LET k == edgeKeyOf(byID[s.ParentSpanID], s)
                     e == IF k \in DOMAIN agg THEN agg[k]
                          ELSE [durations |-> <<>>, errorCalls |-> 0]
                     e2 == [durations |-> Append(e.durations, s.DurationMs),
                            errorCalls |-> e.errorCalls + (IF s.IsError = 1 THEN 1 ELSE 0)]
                 IN accumulateLoop(byID, Tail(rest), Put(agg, k, e2))

accumulateLoop(byID, rest, agg) ==
    IF rest = <<>> THEN agg
    ELSE LET s == Head(rest)
         IN IF s.ParentSpanID = "" \/ s.ParentSpanID \notin DOMAIN byID
               \/ byID[s.ParentSpanID].Service = s.Service
            THEN accumulateLoop(byID, Tail(rest), agg)
            ELSE LET k == edgeKeyOf(byID[s.ParentSpanID], s)
                     e == IF k \in DOMAIN agg THEN agg[k]
                          ELSE [durations |-> <<>>, errorCalls |-> 0]
                     e2 == [durations |-> Append(e.durations, s.DurationMs),
                            errorCalls |-> e.errorCalls + (IF s.IsError = 1 THEN 1 ELSE 0)]
                 IN accumulateLoop(byID, Tail(rest), Put(agg, k, e2))

accumulateEdges(spans, agg) == accumulateLoop(byIDOf(spans), spans, agg)

\* sort.Slice(v.durations, less) with the unsigned less of line 429.
RECURSIVE insertSorted(_, _)
insertSorted(q, x) ==
    IF q = <<>> THEN <<x>>
    ELSE IF U32Lt(x, Head(q)) THEN <<x>> \o q
    ELSE <<Head(q)>> \o insertSorted(Tail(q), x)

RECURSIVE sortDurations(_)
sortDurations(q) ==
    IF q = <<>> THEN <<>> ELSE insertSorted(sortDurations(Tail(q)), Head(q))

\* percentile(arr, p) with p given in hundredths; arr is indexed from 1.
percentile(arr, pct) ==
    IF Len(arr) = 0 THEN 0
    ELSE LET idx == ((Len(arr) - 1) * pct) \div 100
         IN arr[(IF idx >= Len(arr) THEN Len(arr) - 1 ELSE idx) + 1]

collapseEdgeAgg(agg) ==
    {LET d == sortDurations(agg[k].durations)
     IN [BucketTS |-> k.bucket, Env |-> k.env,
         CallerService |-> k.callerService, CalleeService |-> k.calleeService,
         CallerVersion |-> k.callerVersion, CalleeVersion |-> k.calleeVersion,
         Calls |-> Len(d), ErrorCalls |-> agg[k].errorCalls,
         P50Ms |-> percentile(d, 50), P95Ms |-> percentile(d, 95),
         MaxMs |-> d[Len(d)]] : k \in {x \in DOMAIN agg : agg[x].durations # <<>>}}

(***************************************************************************)
(* IngestEvent.ToRaw                                                       *)
(*                                                                         *)
(* An IngestEvent carries its Timestamp as the instant the RFC3339 string  *)
(* denotes, NoTimestamp for an absent or blank string and BadTimestamp for *)
(* a string time.Parse rejects.  Strings are taken as already trimmed and  *)
(* lower-cased.  The RawLogRow keeps the fields Reconstructor.Add reads.   *)
(***************************************************************************)
NoTimestamp == 0
BadTimestamp == -1

withDefault(v, fallback) == IF v = "" THEN fallback ELSE v

\* ok is FALSE where ToRaw returns an error.
ToRaw(e, nowT) ==
    IF e.CorrelationID = "" \/ e.Timestamp = BadTimestamp
    THEN [ok |-> FALSE]
    ELSE [ok |-> TRUE,
          ts |-> IF e.Timestamp = NoTimestamp THEN nowT ELSE e.Timestamp,
          row |-> [TS |-> FormatCHTime(IF e.Timestamp = NoTimestamp
                                       THEN nowT ELSE e.Timestamp),
                   Service |-> withDefault(e.Service, "unknown-service"),
                   Env |-> withDefault(e.Env, "unknown"),
                   Host |-> withDefault(e.Host, "unknown-host"),
                   Version |-> withDefault(e.Version, "unknown"),
                   Message |-> e.Message,
                   TraceID |-> e.CorrelationID,
                   SpanID |-> e.SpanID,
                   ParentSpanID |-> e.ParentSpanID,
                   Event |-> IF e.Event = "" THEN "log" ELSE e.Event,
                   Route |-> e.Route,
                   StatusCode |-> e.StatusCode,
                   DurationMs |-> e.DurationMs]]

(***************************************************************************)
(* The events the model ingests.  Every event is named by its index in     *)
(* Events; a request body names its events by these indexes.               *)
(***************************************************************************)
Ev(cid, span, parent, service, event, ts, dur, status) ==
    [CorrelationID |-> cid, SpanID |-> span, ParentSpanID |-> parent,
     Service |-> service, Env |-> "prod", Host |-> "h1", Version |-> "v1",
     Message |-> "m", Route |-> "/r", Event |-> event, Timestamp |-> ts,
     DurationMs |-> dur, StatusCode |-> status]

\* The millisecond the event times are laid around: a minute boundary.
BaseMs == 60000

LifecycleEvents ==
    << Ev("A", "s1", "", "svc-a", "start", Ms(BaseMs), 0, 0),
       Ev("A", "s1", "", "svc-a", "end", Ms(BaseMs + 4), 4, 0),
       Ev("A", "s1", "", "svc-a", "end", Ms(BaseMs - 2), 3, 0),
       Ev("A", "s2", "s1", "svc-b", "start", Ms(BaseMs + 2), 0, 0),
       Ev("A", "s2", "", "svc-b", "end", Ms(BaseMs + 1), 0, 0),
       Ev("A", "s2", "s1", "svc-b", "log", Ms(BaseMs + 3), 6, 503),
       Ev("B", "s1", "", "svc-a", "start", Ms(BaseMs + 1) + 1, 0, 0),
       Ev("A", "", "s1", "svc-b", "log", Ms(BaseMs + 2) + 1, 0, 0),
       Ev("", "s1", "", "svc-a", "start", Ms(BaseMs), 0, 0) >>

\* Events of one trace whose parent references form roots, dangling parents,
\* a self loop and cycles of two and three spans.
GraphAt == Ms(BaseMs + 4)

GraphEvents ==
    << Ev("G", "s1", "", "svc-a", "log", GraphAt, 1, 0),
       Ev("G", "s1", "s2", "svc-a", "log", GraphAt, 3, 0),
       Ev("G", "s2", "s1", "svc-b", "log", GraphAt, 6, 0),
       Ev("G", "s2", "s2", "svc-b", "log", GraphAt, 7, 0),
       Ev("G", "s3", "s2", "svc-c", "log", GraphAt, 2, 0),
       Ev("G", "s3", "zz", "svc-c", "log", GraphAt, 5, 0),
       Ev("G", "s1", "s3", "svc-a", "log", GraphAt, 3, 0),
       Ev("G", "s1", "", "svc-a", "start", GraphAt, 0, 0) >>

\* The four events of the two-span scenario: root s1 of svc-a from T0 to
\* T0+100ms, child s2 of svc-b from T0+20ms to T0+80ms.
ScenarioEvents ==
    << Ev("S", "s1", "", "svc-a", "start", Ms(BaseMs), 0, 0),
       Ev("S", "s1", "", "svc-a", "end", Ms(BaseMs + 100), 100, 0),
       Ev("S", "s2", "s1", "svc-b", "start", Ms(BaseMs + 20), 0, 0),
       Ev("S", "s2", "", "svc-b", "end", Ms(BaseMs + 80), 60, 0) >>

\* Events of one trace whose root p of 4 ms has three children: c1 of 4 ms,
\* c2 whose end event is stamped a millisecond before its start event and
\* that carries no durationMs, and c3 of 2 ms.
FamilyEvents ==
    << Ev("F", "p", "", "svc-a", "end", Ms(BaseMs + 4), 4, 0),
       Ev("F", "c1", "p", "svc-b", "end", Ms(BaseMs + 4), 4, 0),
       Ev("F", "c2", "p", "svc-b", "start", Ms(BaseMs + 3), 0, 0),
       Ev("F", "c2", "p", "svc-b", "end", Ms(BaseMs + 2), 0, 0),
       Ev("F", "c3", "p", "svc-c", "end", Ms(BaseMs + 3), 2, 0) >>

Events == LifecycleEvents \o GraphEvents \o ScenarioEvents \o FamilyEvents

GraphIndexes == (Len(LifecycleEvents) + 1)..(Len(LifecycleEvents) + Len(GraphEvents))

ScenarioIndexes ==
    (Len(LifecycleEvents) + Len(GraphEvents) + 1)
        ..(Len(LifecycleEvents) + Len(GraphEvents) + Len(ScenarioEvents))

FamilyIndexes == (Len(Events) - Len(FamilyEvents) + 1)..Len(Events)

(***************************************************************************)
(* parseEvents                                                             *)
(*                                                                         *)
(* A body is [form, entries].  form is "empty" (nothing but white space),  *)
(* "badarray" (starts with "[" and is no JSON array), "array", "ndjson"    *)
(* (contains a newline) or "single".  An entry is the index of an event of *)
(* Events, or BadJSON for an element or line json.Unmarshal rejects, or    *)
(* BlankLine, or LongLine for a line over the scanner's buffer.            *)
(***************************************************************************)
BadJSON == 0
BlankLine == -1
LongLine == -2

\* Lines 163-179: the number of lines the scanner hands out before it stops,
\* at the first line over its buffer or at the end of the body.
scanned(form, entries) ==
    IF form = "ndjson" /\ \E i \in DOMAIN entries : entries[i] = LongLine
    THEN (CHOOSE i \in DOMAIN entries :
             entries[i] = LongLine /\ \A j \in 1..(i - 1) : entries[j] # LongLine) - 1
    ELSE Len(entries)

\* Lines 144-152 (array elements) and 163-179 (lines): the events, in order,
\* and the numbers of the elements or lines json.Unmarshal rejects, in order,
\* followed by the number of the last line scanned when the scanner stopped
\* on an error.  Blank lines are counted and skipped.
parseEntries(form, entries) ==
    LET n == scanned(form, entries)
    IN [events |-> SelectSeq(SubSeq(entries, 1, n), LAMBDA x : x > BadJSON),
        errs |-> SelectSeq([i \in 1..n |-> i], LAMBDA i : entries[i] = BadJSON)
                   \o (IF n < Len(entries) THEN <<n>> ELSE <<>>)]

parseEvents(body) ==
    CASE body.form \in {"empty", "badarray"} -> [events |-> <<>>, errs |-> <<0>>]
      [] body.form = "single" /\ body.entries[1] = BadJSON ->
           [events |-> <<>>, errs |-> <<1>>]
      [] OTHER -> parseEntries(body.form, body.entries)

(***************************************************************************)
(* validBearer                                                             *)
(*                                                                         *)
(* The Authorization header is the sequence of the pieces that its single  *)
(* spaces separate: "Bearer tok" is <<"Bearer", "tok">>, the empty header  *)
(* is <<"">>, and "Bearer  tok" is <<"Bearer", "", "tok">>.                *)
(***************************************************************************)
\* strings.EqualFold(s, "Bearer")
EqualFoldBearer(s) == s \in {"Bearer", "bearer", "BEARER"}

RECURSIVE trimLeft(_)
trimLeft(ws) == IF ws # <<>> /\ Head(ws) = "" THEN trimLeft(Tail(ws)) ELSE ws

RECURSIVE trimRight(_)
trimRight(ws) ==
    IF ws # <<>> /\ ws[Len(ws)] = "" THEN trimRight(SubSeq(ws, 1, Len(ws) - 1)) ELSE ws

\* strings.TrimSpace of the pieces joined by single spaces.
TrimSpace(ws) == trimRight(trimLeft(ws))

\* validBearer without the comparison of the scheme at line 195.
validBearerAnyScheme(header, tok) ==
    IF Len(header) < 2 THEN FALSE
    ELSE TrimSpace(Tail(header)) = <<tok>>

validBearer(header, tok) ==
    IF Len(header) < 2 THEN FALSE
    ELSE IF ~EqualFoldBearer(header[1]) THEN FALSE
    ELSE TrimSpace(Tail(header)) = <<tok>>

(***************************************************************************)
(* The store.                                                              *)
(*                                                                         *)
(* raw_logs and dependency_edges_minute are MergeTree tables: an insert    *)
(* adds its rows, and the table is a bag, row -> number of copies.  spans  *)
(* and traces are ReplacingMergeTree tables: of the rows with one sorting  *)
(* key the one written last is kept, and the table is a map, key -> row.   *)
(* A specification that does not follow the store keeps it empty.          *)
(***************************************************************************)
EmptyStore(followed) ==
    [followed |-> followed, raw_logs |-> EmptyMap, spans |-> EmptyMap,
     traces |-> EmptyMap, dependency_edges_minute |-> EmptyMap]

\* ORDER BY (env, service, start_ts, trace_id, span_id)
spanKey(r) == <<r.Env, r.Service, r.StartTS, r.TraceID, r.SpanID>>

\* ORDER BY (env, start_ts, trace_id)
traceKey(t) == <<t.Env, t.StartTS, t.TraceID>>

\* ORDER BY (env, bucket_ts, caller_service, callee_service, caller_version,
\* callee_version)
edgeRowKey(e) ==
    <<e.Env, e.BucketTS, e.CallerService, e.CalleeService, e.CallerVersion,
      e.CalleeVersion>>

\* A MergeTree table after the insert of one more copy of row.
appended(bag, row) ==
    [x \in (DOMAIN bag) \cup {row} |->
        (IF x \in DOMAIN bag THEN bag[x] ELSE 0) + (IF x = row THEN 1 ELSE 0)]

RECURSIVE appendedAll(_, _)
appendedAll(bag, rows) ==
    IF rows = {} THEN bag
    ELSE LET r == CHOOSE x \in rows : TRUE
         IN appendedAll(appended(bag, r), rows \ {r})

RECURSIVE appendedSeq(_, _)
appendedSeq(bag, rows) ==
    IF rows = <<>> THEN bag ELSE appendedSeq(appended(bag, Head(rows)), Tail(rows))

\* A ReplacingMergeTree table after the insert of the rows, which have
\* different keys; keyOf maps each row to its sorting key.
replaced(table, rows, keyOf) ==
    [k \in (DOMAIN table) \cup {keyOf[r] : r \in rows} |->
        IF \E r \in rows : keyOf[r] = k
        THEN CHOOSE r \in rows : keyOf[r] = k
        ELSE table[k]]

\* The store after the raw_logs insert of IngestLogs.
rawInserted(st, rawRows) ==
    IF ~st.followed THEN st
    ELSE [st EXCEPT !.raw_logs = appendedSeq(@, rawRows)]

\* The store after the inserts of a flush that built the rows e, those into
\* the tables of failed refused.
Inserted(st, e, failed) ==
    IF ~st.followed THEN st
    ELSE [st EXCEPT
            !.spans = IF "spans" \in failed THEN @ ELSE replaced(@, e.spans, [r \in e.spans |-> spanKey(r)]),
            !.traces = IF "traces" \in failed THEN @ ELSE replaced(@, e.traces, [t \in e.traces |-> traceKey(t)]),
            !.dependency_edges_minute =
                IF "dependency_edges_minute" \in failed THEN @
                ELSE appendedAll(@, e.edges)]

(***************************************************************************)
(* Handler.IngestLogs                                                      *)
(***************************************************************************)
MaxReportedErrors == 100

\* Lines 77-88: ToRaw on each parsed event; i is the 1-based position of
\* Head(events) among the parsed events.
RECURSIVE normalizeLoop(_, _, _, _)
normalizeLoop(events, i, nowT, acc) ==
    IF events = <<>> THEN acc
    ELSE LET r == ToRaw(Events[Head(events)], nowT)
         IN normalizeLoop(Tail(events), i + 1, nowT,
              IF r.ok
              THEN [acc EXCEPT !.rawRows = Append(@, r.row),
                               !.times = Append(@, r.ts),
                               !.folded = Append(@, Head(events))]
              ELSE [acc EXCEPT !.rejected = @ + 1,
                               !.errors = IF Len(@) < MaxReportedErrors
                                          THEN Append(@, i) ELSE @])

\* The history after Add folded the events idx, whose rows are rows.
RECURSIVE recordFolded(_, _, _)
recordFolded(h, rows, idx) ==
    IF rows = <<>> THEN h
    ELSE LET id == Head(rows).TraceID
         IN recordFolded(Put(h, id, (IF id \in DOMAIN h THEN h[id] ELSE {}) \cup {Head(idx)}),
                         Tail(rows), Tail(idx))

\* The events folded into the resident trace states.
Resident == UNION {hist[id] : id \in DOMAIN hist}

\* The bound on the inputs: the events of the request are not resident yet,
\* and with them at most k events are.
Room(req, k) ==
    LET es == {x \in Range(req.body.entries) : x > BadJSON}
    IN es \cap Resident = {} /\ Cardinality(Resident \cup es) <= k

\* rawInsert tells what became of the raw_logs insert: "none" when the
\* handler issued none, else "ok" or "failed".
Reply(status, accepted, rejected, errors, rawInsert) ==
    [status |-> status, accepted |-> accepted, rejected |-> rejected, errors |-> errors,
     rawInsert |-> rawInsert]

\* No response and no flush: the value of resp and out after any other step.
NoReply == Reply(0, 0, 0, <<>>, "none")

NoFlush == [spans |-> {}, traces |-> {}, edges |-> {}, failed |-> {}]

\* Lines 90-91: the raw_logs insert of the rows; insertOK is the store's
\* answer if one is issued.
rawInsertOf(rawRows, insertOK) ==
    IF Len(rawRows) = 0 THEN "none" ELSE IF insertOK THEN "ok" ELSE "failed"

\* The fold made before the outcome of the insert is looked at.
insertThenAddAlways(tr, h, n, rawInsert) ==
    [status |-> IF rawInsert = "failed" THEN 502 ELSE 200,
     accepted |-> IF rawInsert = "failed" THEN 0 ELSE Len(n.rawRows),
     traces |-> Add(tr, n.rawRows, n.times),
     hist |-> recordFolded(h, n.rawRows, n.folded)]

\* Lines 90-97: the status, the accepted count and the trace map after the
\* insert of the normalized rows n ended as rawInsert says.
insertThenAdd(tr, h, n, rawInsert) ==
    IF rawInsert = "failed"
    THEN [status |-> 502, accepted |-> 0, traces |-> tr, hist |-> h]
    ELSE [status |-> 200, accepted |-> Len(n.rawRows),
          traces |-> Add(tr, n.rawRows, n.times),
          hist |-> recordFolded(h, n.rawRows, n.folded)]

\* insertOK: whether the store accepts the raw_logs insert, if one is issued.
IngestLogs(req, insertOK) ==
    LET p == parseEvents(req.body)
        n == normalizeLoop(p.events, 1, now,
                [rawRows |-> <<>>, times |-> <<>>, folded |-> <<>>,
                 rejected |-> 0, errors |-> p.errs])
        rawInsert == rawInsertOf(n.rawRows, insertOK)
        r == insertThenAdd(traces, hist, n, rawInsert)
    IN /\ op' = "ingest"
       /\ out' = NoFlush
       /\ UNCHANGED <<now, token, cp>>
       /\ IF req.method # "POST"
          THEN resp' = Reply(405, 0, 0, <<>>, "none") /\ UNCHANGED <<traces, hist, store>>
          ELSE IF token # "" /\ ~validBearer(req.authorization, token)
          THEN resp' = Reply(401, 0, 0, <<>>, "none") /\ UNCHANGED <<traces, hist, store>>
          ELSE IF ~req.gzipOK
          THEN resp' = Reply(400, 0, 0, <<>>, "none") /\ UNCHANGED <<traces, hist, store>>
          ELSE IF Len(p.events) = 0
          THEN resp' = Reply(400, 0, Len(p.errs), p.errs, "none")
               /\ UNCHANGED <<traces, hist, store>>
          ELSE /\ traces' = r.traces
               /\ store' = IF rawInsert = "ok" THEN rawInserted(store, n.rawRows) ELSE store
               /\ hist' = r.hist
               /\ resp' = IF r.status = 502
                          THEN Reply(502, 0, 0, <<>>, rawInsert)
                          ELSE Reply(200, r.accepted,
                                     n.rejected + (Len(p.events) - Len(n.rawRows)),
                                     n.errors, rawInsert)

(***************************************************************************)
(* Reconstructor.FlushNow                                                  *)
(***************************************************************************)
\* Lines 359-363 on the span states: the ids the first range of criticalPath
\* does not skip.
rootsOf(t) ==
    {id \in DOMAIN t.spans :
        t.spans[id].parentSpanID = "" \/ t.spans[id].parentSpanID \notin DOMAIN t.spans}

\* Lines 171-177 for one trace: every (span rows, trace row) the map orders
\* allow.
TraceFlushes(t, nowT) ==
    UNION {{[spans |-> rows, trace |-> buildTraceRow(t.env, t.id, rows, o[1], o[2])] :
               o \in Perms(rootsOf(t)) \X Perms(DOMAIN t.spans)} :
           rows \in {finalizeSpans(t, ord, nowT) : ord \in Perms(DOMAIN t.spans)}}

\* The selection that takes every trace, whatever its age.
AgedOrNot(tr, nowT) == DOMAIN tr

\* The selection that keeps a trace whose age is exactly the window.
AgedStrictly(tr, nowT) == {id \in DOMAIN tr : nowT - tr[id].updatedAt > Window}

\* The selection with the test of line 167 turned round.
AgedReversed(tr, nowT) == {id \in DOMAIN tr : nowT - tr[id].updatedAt < Window}

\* Line 167: the traces the flush at nowT selects.
Aged(tr, nowT) == {id \in DOMAIN tr : ~(nowT - tr[id].updatedAt < Window)}

RECURSIVE accumulateAll(_, _, _)
accumulateAll(ids, pick, agg) ==
    IF ids = {} THEN agg
    ELSE LET id == CHOOSE x \in ids : TRUE
         IN accumulateAll(ids \ {id}, pick, accumulateEdges(pick[id].spans, agg))

\* The rows of a flush that keeps the span rows of one selected trace only.
EmittedOfOne(pick) ==
    [spans |-> IF pick = EmptyMap THEN {}
               ELSE Range(pick[CHOOSE id \in DOMAIN pick : TRUE].spans),
     traces |-> {pick[id].trace : id \in DOMAIN pick},
     edges |-> collapseEdgeAgg(accumulateAll(DOMAIN pick, pick, EmptyMap))]

\* Lines 176-178 and 189: the rows a flush builds from the rows pick of the
\* traces it selected.
Emitted(pick) ==
    [spans |-> UNION {Range(pick[id].spans) : id \in DOMAIN pick},
     traces |-> {pick[id].trace : id \in DOMAIN pick},
     edges |-> collapseEdgeAgg(accumulateAll(DOMAIN pick, pick, EmptyMap))]

\* Lines 182-191: the tables an insert is issued for.
Issued(e) ==
    (IF e.spans # {} THEN {"spans"} ELSE {})
      \cup (IF e.traces # {} THEN {"traces"} ELSE {})
      \cup (IF e.edges # {} THEN {"dependency_edges_minute"} ELSE {})

\* pick: the rows of each selected trace; failed: the tables whose insert the
\* store refuses.
FlushNow(pick, failed) ==
    LET aged == Aged(traces, now)
        e == Emitted(pick)
    IN /\ DOMAIN pick = aged
       /\ failed \subseteq Issued(e)
       /\ traces' = Without(traces, aged)
       /\ hist' = Without(hist, aged)
       /\ out' = [spans |-> e.spans, traces |-> e.traces, edges |-> e.edges,
                  failed |-> failed]
       /\ store' = Inserted(store, e, failed)
       /\ op' = "flush"
       /\ resp' = NoReply
       /\ UNCHANGED <<now, token, cp>>

\* Every choice of rows FlushNow can make for the traces ids of tr.
Picks(tr, ids, nowT) ==
    {f \in [ids -> UNION {TraceFlushes(tr[id], nowT) : id \in ids}] :
        \A id \in ids : f[id] \in TraceFlushes(tr[id], nowT)}

Tables == {"spans", "traces", "dependency_edges_minute"}

\* Run: the ticker's flush.
Flush ==
    /\ \E pick \in Picks(traces, Aged(traces, now), now) :
          \E failed \in SUBSET Tables : FlushNow(pick, failed)
    /\ UNCHANGED <<proc, api>>

\* The read API before its first call.
NoCall == [call |-> "none"]

(***************************************************************************)
(* The processes.                                                          *)
(*                                                                         *)
(* proc.main is where main is: "serving" until the signal, "draining"      *)
(* inside srv.Shutdown, "drained" once it returned, "exited" once the last *)
(* FlushNow returned and main with it.  proc.mu is the holder of r.mu, or  *)
(* "".  proc.add and proc.flush are the goroutines inside one call of Add  *)
(* and of FlushNow where a specification follows them statement by         *)
(* statement: pc is "idle" outside the call, "lock" at r.mu.Lock(), then   *)
(* "fold" in the loop of Add, "select" in the loop of FlushNow and         *)
(* "unlock" once its inserts returned.  flush.snap is the trace map as the *)
(* flush found it.                                                         *)
(***************************************************************************)
AddIdle == [pc |-> "idle", rows |-> <<>>, times |-> <<>>, idx |-> <<>>]

FlushIdle == [pc |-> "idle", at |-> 0, todo |-> {}, pick |-> EmptyMap, snap |-> EmptyMap]

ProcIdle == [main |-> "serving", mu |-> "", add |-> AddIdle, flush |-> FlushIdle]

(***************************************************************************)
(* criticalPath, one step at a time.                                       *)
(*                                                                         *)
(* cp.stack holds the activations of dfs, the innermost last: the span id, *)
(* the index of the child the loop of lines 346-350 is at, and bestChild.  *)
(* cp.todo holds the ids the running range loop has not reached yet; Go    *)
(* hands them out in any order.                                            *)
(***************************************************************************)
CPIdle ==
    [pc |-> "idle", spans |-> EmptyMap, children |-> EmptyMap, todo |-> {},
     stack |-> <<>>, memo |-> EmptyMap, visiting |-> {}, best |-> 0]

\* A call dfs(id) that does not look at the visiting set.
dfsEntryUnguarded(id, memo, visiting) ==
    IF id \in DOMAIN memo THEN "memo" ELSE "enter"

\* Lines 337-343: how a call dfs(id) begins.
dfsEntry(id, memo, visiting) ==
    IF id \in DOMAIN memo THEN "memo"
    ELSE IF id \in visiting THEN "cycle"
    ELSE "enter"

U32Max(a, b) == IF U32Lt(a, b) THEN b ELSE a

\* cp after a call dfs(id) returned v to the caller: the activation on top of
\* the stack, or else the range loop.
CPReturned(c, v) ==
    IF c.stack = <<>>
    THEN [c EXCEPT !.best = U32Max(@, v)]
    ELSE [c EXCEPT !.stack[Len(c.stack)].bestChild = U32Max(@, v),
                   !.stack[Len(c.stack)].next = @ + 1]

\* cp after the call dfs(id) was made.
CPCall(c, id) ==
    CASE dfsEntry(id, c.memo, c.visiting) = "memo" -> CPReturned(c, c.memo[id])
      [] dfsEntry(id, c.memo, c.visiting) = "cycle" -> CPReturned(c, 0)
      [] OTHER -> [c EXCEPT !.visiting = @ \cup {id},
                            !.stack = Append(@, [id |-> id, next |-> 1, bestChild |-> 0])]

CPFrame == <<traces, now, token, hist, out, resp, op, store, proc, api>>

\* Lines 358-367 and 369-373: the range loop hands out the next id.
CPRange ==
    /\ cp.pc \in {"range1", "range2"}
    /\ cp.stack = <<>>
    /\ \E id \in cp.todo :
          LET c == [cp EXCEPT !.todo = @ \ {id}]
          IN cp' = IF cp.pc = "range1" /\ id \notin seedsOf(cp.spans)
                   THEN c
                   ELSE CPCall(c, id)
    /\ UNCHANGED CPFrame

\* Lines 368 and 375: a range loop is over.
CPRangeEnd ==
    /\ cp.pc \in {"range1", "range2"}
    /\ cp.stack = <<>>
    /\ cp.todo = {}
    /\ cp' = IF cp.pc = "range1" /\ cp.best = 0
             THEN [cp EXCEPT !.pc = "range2", !.todo = DOMAIN cp.spans]
             ELSE [cp EXCEPT !.pc = "done"]
    /\ UNCHANGED CPFrame

\* Lines 344-354: the innermost activation of dfs calls its next child, or
\* returns when it has none left.
CPStep ==
    /\ cp.stack # <<>>
    /\ Len(cp.stack) < CPMaxDepth
    /\ LET f == cp.stack[Len(cp.stack)]
           cs == childrenOf(cp.children, f.id)
       IN cp' = IF f.next <= Len(cs)
                THEN CPCall(cp, cs[f.next])
                ELSE LET total == U32Add(cp.spans[f.id].DurationMs, f.bestChild)
                     IN CPReturned([cp EXCEPT !.visiting = @ \ {f.id},
                                              !.memo = Put(@, f.id, total),
                                              !.stack = SubSeq(@, 1, Len(@) - 1)],
                                   total)
    /\ UNCHANGED CPFrame

(***************************************************************************)
(* The clock.                                                              *)
(***************************************************************************)
Tick(limit) ==
    /\ now + Ms(1) <= limit
    /\ now' = now + Ms(1)
    /\ op' = "tick"
    /\ out' = NoFlush
    /\ resp' = NoReply
    /\ UNCHANGED <<traces, token, hist, cp, store, proc, api>>

(***************************************************************************)
(* The collector from its construction on.                                 *)
(***************************************************************************)
InitAt(nowT) ==
    /\ traces = EmptyMap
    /\ now = nowT
    /\ token = "tok"
    /\ hist = EmptyMap
    /\ out = NoFlush
    /\ resp = NoReply
    /\ op = "init"
    /\ cp = CPIdle
    /\ store = EmptyStore(FALSE)
    /\ proc = ProcIdle
    /\ api = NoCall

Post(body) ==
    [method |-> "POST", authorization |-> <<"Bearer", "tok">>, gzipOK |-> TRUE, body |-> body]

Single(i) == [form |-> "single", entries |-> <<i>>]

\* One line more than the response reports, none of them JSON.
ManyBadLines == [k \in 1..(MaxReportedErrors + 1) |-> BadJSON]

Requests ==
    {Post(Single(i)) : i \in BadJSON..Len(LifecycleEvents)}
      \cup {Post([form |-> "ndjson", entries |-> <<1, BadJSON, 9, BlankLine, 2>>]),
            Post([form |-> "ndjson", entries |-> ManyBadLines]),
            Post([form |-> "ndjson", entries |-> ManyBadLines \o <<7>>]),
            Post([form |-> "array", entries |-> <<4, 5>>]),
            Post([form |-> "empty", entries |-> <<>>]),
            [Post(Single(1)) EXCEPT !.method = "GET"],
            [Post(Single(1)) EXCEPT !.authorization = <<"Basic", "tok">>],
            [Post(Single(1)) EXCEPT !.gzipOK = FALSE]}

Ingest ==
    /\ \E req \in Requests :
          \E insertOK \in BOOLEAN : Room(req, MaxEvents) /\ IngestLogs(req, insertOK)
    /\ UNCHANGED <<proc, api>>

Init == InitAt(Ms(BaseMs + 4))

Advance == Tick(Ms(BaseMs + 4 + WindowMs + 1))

Next == Ingest \/ Advance \/ Flush

Spec == Init /\ [][Next]_vars

(***************************************************************************)
(* The collector fed the events of GraphEvents.                            *)
(***************************************************************************)
GraphRequests ==
    {Post(Single(i)) : i \in GraphIndexes}
      \cup {Post([form |-> "array", entries |-> <<i, i + 2>>]) : i \in {Len(LifecycleEvents) + 1}}

IngestGraph ==
    /\ \E req \in GraphRequests :
          \E insertOK \in BOOLEAN : Room(req, MaxEvents) /\ IngestLogs(req, insertOK)
    /\ UNCHANGED <<proc, api>>

InitGraph == InitAt(GraphAt)

AdvanceGraph == Tick(GraphAt + Ms(WindowMs + 1))

NextGraph == IngestGraph \/ AdvanceGraph \/ Flush

SpecGraph == InitGraph /\ [][NextGraph]_vars

(***************************************************************************)
(* The collector fed the events of ScenarioEvents.                         *)
(***************************************************************************)
ScenarioRequests ==
    {Post(Single(i)) : i \in ScenarioIndexes}
      \cup {Post([form |-> "ndjson", entries |-> [k \in 1..Len(ScenarioEvents) |->
                                                   Len(LifecycleEvents) + Len(GraphEvents) + k]])}

IngestScenario ==
    /\ \E req \in ScenarioRequests :
          \E insertOK \in BOOLEAN :
              Room(req, Len(ScenarioEvents)) /\ IngestLogs(req, insertOK)
    /\ UNCHANGED <<proc, api>>

InitScenario == InitAt(Ms(BaseMs + 100))

AdvanceScenario == Tick(Ms(BaseMs + 100 + WindowMs + 1))

NextScenario == IngestScenario \/ AdvanceScenario \/ Flush

SpecScenario == InitScenario /\ [][NextScenario]_vars

(***************************************************************************)
(* The collector fed the events of FamilyEvents.                           *)
(***************************************************************************)
FamilyRequests == {Post(Single(i)) : i \in FamilyIndexes}

IngestFamily ==
    /\ \E req \in FamilyRequests :
          \E insertOK \in BOOLEAN :
              Room(req, Len(FamilyEvents)) /\ IngestLogs(req, insertOK)
    /\ UNCHANGED <<proc, api>>

InitFamily == InitAt(Ms(BaseMs + 4))

AdvanceFamily == Tick(Ms(BaseMs + 4 + WindowMs + 1))

NextFamily == IngestFamily \/ AdvanceFamily \/ Flush

SpecFamily == InitFamily /\ [][NextFamily]_vars

(***************************************************************************)
(* The collector from the start to its exit on the shutdown signal.        *)
(***************************************************************************)
ShutdownRequests == {Post(Single(i)) : i \in {2, 3, 7}}

\* A request is served: before the signal, or one that was in flight at the
\* signal and ends while srv.Shutdown waits or after its deadline passed.
IngestServed ==
    /\ proc.main # "exited"
    /\ \E req \in ShutdownRequests :
          \E insertOK \in BOOLEAN : Room(req, MaxEvents) /\ IngestLogs(req, insertOK)
    /\ UNCHANGED <<proc, api>>

\* Run's flush; a tick that is ready together with ctx.Done() may still win
\* the select after the signal.
TickerFlush == proc.main # "exited" /\ Flush

ShutdownFrame == <<traces, now, token, hist, out, resp, op, cp, store, api>>

\* Line 68: the signal cancels ctx.
Signal ==
    /\ proc.main = "serving"
    /\ proc' = [proc EXCEPT !.main = "draining"]
    /\ UNCHANGED ShutdownFrame

\* Line 71: srv.Shutdown returns, the connections idle or the deadline over.
DrainReturns ==
    /\ proc.main = "draining"
    /\ proc' = [proc EXCEPT !.main = "drained"]
    /\ UNCHANGED ShutdownFrame

\* Line 72: the last FlushNow, and main returns.
FinalFlush ==
    /\ proc.main = "drained"
    /\ \E pick \in Picks(traces, Aged(traces, now), now) :
          \E failed \in SUBSET Tables : FlushNow(pick, failed)
    /\ proc' = [proc EXCEPT !.main = "exited"]
    /\ UNCHANGED api

ShutdownAt == Ms(BaseMs + 2)

InitShutdown ==
    /\ traces = EmptyMap
    /\ now = ShutdownAt
    /\ token = "tok"
    /\ hist = EmptyMap
    /\ out = NoFlush
    /\ resp = NoReply
    /\ op = "init"
    /\ cp = CPIdle
    /\ store = EmptyStore(FALSE)
    /\ proc = ProcIdle
    /\ api = NoCall

AdvanceShutdown == proc.main # "exited" /\ Tick(ShutdownAt + Ms(WindowMs))

NextShutdown ==
    IngestServed \/ TickerFlush \/ Signal \/ DrainReturns \/ FinalFlush \/ AdvanceShutdown

SpecShutdown == InitShutdown /\ [][NextShutdown]_vars

(***************************************************************************)
(* The collector with and without a configured token, sent requests with   *)
(* every kind of Authorization header.                                     *)
(***************************************************************************)
\* "", "Bearer tok", "bearer tok", "BEARER  tok ", "Bearer", "Bearer ",
\* "Bearer bad", "Bearer tok x", "Basic tok", "tok", "Bearertok tok".
AuthHeaders ==
    { <<"">>, <<"Bearer", "tok">>, <<"bearer", "tok">>, <<"BEARER", "", "tok", "">>,
      <<"Bearer">>, <<"Bearer", "">>, <<"Bearer", "bad">>, <<"Bearer", "tok", "x">>,
      <<"Basic", "tok">>, <<"tok">>, <<"Bearertok", "tok">> }

AuthRequests ==
    {[r EXCEPT !.authorization = h] :
        r \in {Post(Single(1)), Post(Single(4)), Post(Single(7)),
                [Post(Single(2)) EXCEPT !.method = "GET"]},
        h \in AuthHeaders}

IngestAuth ==
    /\ \E req \in AuthRequests :
          \E insertOK \in BOOLEAN : Room(req, MaxEvents) /\ IngestLogs(req, insertOK)
    /\ UNCHANGED <<proc, api>>

InitAuth ==
    /\ traces = EmptyMap
    /\ now = Ms(BaseMs + 4)
    /\ token \in {"", "tok"}
    /\ hist = EmptyMap
    /\ out = NoFlush
    /\ resp = NoReply
    /\ op = "init"
    /\ cp = CPIdle
    /\ store = EmptyStore(FALSE)
    /\ proc = ProcIdle
    /\ api = NoCall

AdvanceAuth == Tick(Ms(BaseMs + 4 + WindowMs + 1))

NextAuth == IngestAuth \/ AdvanceAuth \/ Flush

SpecAuth == InitAuth /\ [][NextAuth]_vars

(***************************************************************************)
(* The collector sent one batch, the scenario's, up to MaxCopies times,    *)
(* with a store that accepts every insert of a flush.                      *)
(***************************************************************************)
TwiceBatch ==
    [form |-> "ndjson",
     entries |-> [k \in 1..Len(ScenarioEvents) |->
                     Len(LifecycleEvents) + Len(GraphEvents) + k]]

\* The number of copies of the batch the store accepted.
Copies ==
    LET row == ToRaw(Events[TwiceBatch.entries[1]], now).row
    IN IF row \in DOMAIN store.raw_logs THEN store.raw_logs[row] ELSE 0

IngestTwice ==
    /\ \E insertOK \in BOOLEAN :
          Copies < MaxCopies /\ IngestLogs(Post(TwiceBatch), insertOK)
    /\ UNCHANGED <<proc, api>>

FlushStored ==
    /\ \E pick \in Picks(traces, Aged(traces, now), now) : FlushNow(pick, {})
    /\ UNCHANGED <<proc, api>>

TwiceAt == Ms(BaseMs + 90)

InitTwice ==
    /\ traces = EmptyMap
    /\ now = TwiceAt
    /\ token = "tok"
    /\ hist = EmptyMap
    /\ out = NoFlush
    /\ resp = NoReply
    /\ op = "init"
    /\ cp = CPIdle
    /\ store = EmptyStore(TRUE)
    /\ proc = ProcIdle
    /\ api = NoCall

AdvanceTwice == Tick(Ms(BaseMs + 100 + WindowMs + 1))

NextTwice == IngestTwice \/ AdvanceTwice \/ FlushStored

SpecTwice == InitTwice /\ [][NextTwice]_vars

(***************************************************************************)
(* criticalPath run on every parent structure of three spans.              *)
(***************************************************************************)
CPSlice(parent, d1, d2) ==
    << [SpanID |-> "s1", ParentSpanID |-> parent["s1"], DurationMs |-> d1],
       [SpanID |-> "s2", ParentSpanID |-> parent["s2"], DurationMs |-> d2],
       [SpanID |-> "s3", ParentSpanID |-> parent["s3"], DurationMs |-> 4] >>

CPStart(slice) ==
    [CPIdle EXCEPT !.pc = "range1", !.spans = byIDOf(slice),
                   !.children = childIndexOf(slice),
                   !.todo = {r.SpanID : r \in Range(slice)}]

InitCP ==
    /\ traces = EmptyMap
    /\ now = GraphAt
    /\ token = "tok"
    /\ hist = EmptyMap
    /\ out = NoFlush
    /\ resp = NoReply
    /\ op = "init"
    /\ store = EmptyStore(FALSE)
    /\ proc = ProcIdle
    /\ api = NoCall
    /\ \E parent \in [{"s1", "s2", "s3"} -> {"", "s1", "s2", "s3", "zz"}] :
          \E d1 \in {0, 1} : \E d2 \in {0, 2} : cp = CPStart(CPSlice(parent, d1, d2))

NextCP == CPRange \/ CPRangeEnd \/ CPStep

\* The goroutine that runs criticalPath keeps running.
SpecCP == InitCP /\ [][NextCP]_vars /\ WF_vars(NextCP)

(***************************************************************************)
(* Add and FlushNow statement by statement, one goroutine in each.         *)
(***************************************************************************)
LockFrame == <<now, token, cp, store, api>>

\* Line 55 and line 158 block on this: sync.Mutex.Lock returns only when no
\* goroutine holds r.mu.
mutexIgnored(p) == TRUE

mutexFree(p) == p.mu = ""

LockBatches == {<<3>>, <<7>>, <<3, 7>>}

\* A handler calls r.Add(rows, eventTimes).
AddCall ==
    /\ proc.add.pc = "idle"
    /\ \E batch \in LockBatches :
          LET n == normalizeLoop(batch, 1, now,
                       [rawRows |-> <<>>, times |-> <<>>, folded |-> <<>>,
                        rejected |-> 0, errors |-> <<>>])
          IN /\ Range(batch) \cap Resident = {}
             /\ proc' = [proc EXCEPT !.add = [pc |-> "lock", rows |-> n.rawRows,
                                              times |-> n.times, idx |-> n.folded]]
    /\ op' = "add"
    /\ out' = NoFlush
    /\ UNCHANGED <<traces, hist, resp>>
    /\ UNCHANGED LockFrame

\* Line 55
AddLock ==
    /\ proc.add.pc = "lock"
    /\ mutexFree(proc)
    /\ proc' = [proc EXCEPT !.mu = "add", !.add.pc = "fold"]
    /\ op' = "add"
    /\ out' = NoFlush
    /\ UNCHANGED <<traces, hist, resp>>
    /\ UNCHANGED LockFrame

\* Lines 58-140, one turn of the loop
AddFold ==
    /\ proc.add.pc = "fold"
    /\ proc.add.rows # <<>>
    /\ traces' = AddOne(traces, Head(proc.add.rows), Head(proc.add.times))
    /\ hist' = recordFolded(hist, <<Head(proc.add.rows)>>, <<Head(proc.add.idx)>>)
    /\ proc' = [proc EXCEPT !.add.rows = Tail(@), !.add.times = Tail(@), !.add.idx = Tail(@)]
    /\ op' = "add"
    /\ out' = NoFlush
    /\ UNCHANGED resp
    /\ UNCHANGED LockFrame

\* Line 56, the deferred Unlock
AddUnlock ==
    /\ proc.add.pc = "fold"
    /\ proc.add.rows = <<>>
    /\ proc' = [proc EXCEPT !.mu = IF @ = "add" THEN "" ELSE @, !.add = AddIdle]
    /\ op' = "add"
    /\ out' = NoFlush
    /\ UNCHANGED <<traces, hist, resp>>
    /\ UNCHANGED LockFrame

\* Run's ticker fires: FlushNow is called.
FlushCall ==
    /\ proc.flush.pc = "idle"
    /\ proc' = [proc EXCEPT !.flush.pc = "lock"]
    /\ op' = "flush"
    /\ out' = NoFlush
    /\ UNCHANGED <<traces, hist, resp>>
    /\ UNCHANGED LockFrame

\* Lines 158-165: the lock, the clock read, the range over the map begins.
FlushLock ==
    /\ proc.flush.pc = "lock"
    /\ mutexFree(proc)
    /\ proc' = [proc EXCEPT !.mu = "flush",
                            !.flush = [pc |-> "select", at |-> now, todo |-> DOMAIN traces,
                                       pick |-> EmptyMap, snap |-> traces]]
    /\ op' = "flush"
    /\ out' = NoFlush
    /\ UNCHANGED <<traces, hist, resp>>
    /\ UNCHANGED LockFrame

\* Lines 166-179, one turn of the loop; a trace that left the map meanwhile
\* is not visited.
FlushVisit ==
    /\ proc.flush.pc = "select"
    /\ \E id \in proc.flush.todo :
          IF id \notin DOMAIN traces \/ id \notin Aged(traces, proc.flush.at)
          THEN /\ proc' = [proc EXCEPT !.flush.todo = @ \ {id}]
               /\ UNCHANGED <<traces, hist>>
          ELSE \E f \in TraceFlushes(traces[id], proc.flush.at) :
                 /\ proc' = [proc EXCEPT !.flush.todo = @ \ {id},
                                         !.flush.pick = Put(@, id, f)]
                 /\ traces' = Without(traces, {id})
                 /\ hist' = Without(hist, {id})
    /\ op' = "flush"
    /\ out' = NoFlush
    /\ UNCHANGED resp
    /\ UNCHANGED LockFrame

\* Lines 182-191: the inserts are issued and return.
FlushWrite ==
    /\ proc.flush.pc = "select"
    /\ proc.flush.todo = {}
    /\ LET e == Emitted(proc.flush.pick)
       IN \E failed \in SUBSET Issued(e) :
            /\ out' = [spans |-> e.spans, traces |-> e.traces, edges |-> e.edges,
                       failed |-> failed]
            /\ store' = Inserted(store, e, failed)
    /\ proc' = [proc EXCEPT !.flush.pc = "unlock"]
    /\ op' = "flush"
    /\ UNCHANGED <<traces, hist, resp, now, token, cp, api>>

\* Line 159, the deferred Unlock
FlushUnlock ==
    /\ proc.flush.pc = "unlock"
    /\ proc' = [proc EXCEPT !.mu = IF @ = "flush" THEN "" ELSE @, !.flush = FlushIdle]
    /\ op' = "flush"
    /\ out' = NoFlush
    /\ UNCHANGED <<traces, hist, resp>>
    /\ UNCHANGED LockFrame

AdvanceLock == Tick(ShutdownAt + Ms(WindowMs))

NextLock ==
    \/ AddCall \/ AddLock \/ AddFold \/ AddUnlock
    \/ FlushCall \/ FlushLock \/ FlushVisit \/ FlushWrite \/ FlushUnlock
    \/ AdvanceLock

SpecLock == InitShutdown /\ [][NextLock]_vars

\* Run is active and its context is never cancelled: the clock advances,
\* the ticker keeps firing and FlushNow runs on (lines 146-153), a handler
\* inside Add runs on to its Unlock, and a goroutine waiting in Lock gets the
\* mutex in the end (sync.Mutex hands a waiter of more than 1 ms the lock).
FlushSteps == FlushCall \/ FlushVisit \/ FlushWrite \/ FlushUnlock

SpecRun ==
    /\ InitShutdown
    /\ [][NextLock]_vars
    /\ WF_vars(AdvanceLock)
    /\ WF_vars(FlushSteps)
    /\ SF_vars(FlushLock)
    /\ WF_vars(AddFold \/ AddUnlock)

\* The same two goroutines, with the store followed across the flushes.
InitRefold ==
    /\ traces = EmptyMap
    /\ now = ShutdownAt
    /\ token = "tok"
    /\ hist = EmptyMap
    /\ out = NoFlush
    /\ resp = NoReply
    /\ op = "init"
    /\ cp = CPIdle
    /\ store = EmptyStore(TRUE)
    /\ proc = ProcIdle
    /\ api = NoCall

SpecRefold == InitRefold /\ [][NextLock]_vars

(***************************************************************************)
(* The read API.                                                           *)
(*                                                                         *)
(* A query parameter is absent (Get returns ""), or text that is not       *)
(* RFC3339, or the RFC3339 text of an instant.                             *)
(***************************************************************************)
Hour == Ms(3600000)

AbsentParam == [empty |-> TRUE, rfc3339 |-> FALSE, t |-> 0]
GarbageParam == [empty |-> FALSE, rfc3339 |-> FALSE, t |-> 0]
RFC3339Param(t) == [empty |-> FALSE, rfc3339 |-> TRUE, t |-> t]

\* time.Parse(time.RFC3339, raw)
timeParse(raw) == [err |-> ~raw.rfc3339, t |-> IF raw.rfc3339 THEN raw.t ELSE 0]

\* Before(a, b) of time.Time
Before(a, b) == a < b

\* The window as it stands after the two parameters were read.
rangeRead(rawFrom, rawTo, nowT) ==
    [from |-> IF ~rawFrom.empty /\ ~timeParse(rawFrom).err
              THEN timeParse(rawFrom).t ELSE nowT - Hour,
     to |-> IF ~rawTo.empty /\ ~timeParse(rawTo).err
            THEN timeParse(rawTo).t ELSE nowT]

parseRange(rawFrom, rawTo, nowT) ==
    LET w == rangeRead(rawFrom, rawTo, nowT)
    IN IF ~Before(w.from, w.to) THEN [from |-> w.to - Hour, to |-> w.to] ELSE w

(***************************************************************************)
(* Text of a request is a sequence of pieces: single characters, and the   *)
(* word waterfall written as one piece.                                    *)
(***************************************************************************)
\* The class [a-zA-Z0-9._:/-] of safeToken.
SafeChars ==
    {"a", "b", "c", "d", "e", "f", "g", "h", "i", "j", "k", "l", "m",
     "n", "o", "p", "q", "r", "s", "t", "u", "v", "w", "x", "y", "z",
     "A", "B", "C", "D", "E", "F", "G", "H", "I", "J", "K", "L", "M",
     "N", "O", "P", "Q", "R", "S", "T", "U", "V", "W", "X", "Y", "Z",
     "0", "1", "2", "3", "4", "5", "6", "7", "8", "9",
     ".", "_", ":", "/", "-", "waterfall"}

\* unicode.IsSpace
isSpace(c) == c \in {" ", "\t", "\n", "\r"}

RECURSIVE trimSpaceLeft(_)
trimSpaceLeft(v) == IF v # <<>> /\ isSpace(Head(v)) THEN trimSpaceLeft(Tail(v)) ELSE v

RECURSIVE trimSpaceRight(_)
trimSpaceRight(v) ==
    IF v # <<>> /\ isSpace(v[Len(v)]) THEN trimSpaceRight(SubSeq(v, 1, Len(v) - 1)) ELSE v

\* strings.TrimSpace of a text
trimSpace(v) == trimSpaceRight(trimSpaceLeft(v))

\* A pattern without the anchors: it matches when some piece is in the class.
safeTokenAnywhere(v) == \E i \in DOMAIN v : v[i] \in SafeChars

\* safeToken.MatchString(v): ^[a-zA-Z0-9._:/-]+$ matches the whole text.
safeToken(v) == v # <<>> /\ \A i \in DOMAIN v : v[i] \in SafeChars

sanitize(v) ==
    LET t == trimSpace(v)
    IN IF t = <<>> THEN <<>>
       ELSE IF ~safeToken(t) THEN <<>>
       ELSE t

chTime(t) == t \div TicksPerMs

chMinute(t) == (t \div TicksPerMs) \div MsPerMinute

\* The limit parameter: absent, or text strconv.Atoi fails on, or a number.
AbsentLimit == [empty |-> TRUE, number |-> FALSE, v |-> 0]
GarbageLimit == [empty |-> FALSE, number |-> FALSE, v |-> 0]
LimitParam(v) == [empty |-> FALSE, number |-> TRUE, v |-> v]

LimitCeiling == 5000

parseLimit(raw, fallback) ==
    IF raw.empty THEN fallback
    ELSE IF ~raw.number \/ raw.v <= 0 THEN fallback
    ELSE IF raw.v > LimitCeiling THEN LimitCeiling
    ELSE raw.v

\* One clause of a WHERE built from a request string.
Filter(col, val) == [col |-> col, val |-> val]

TracesLimit == 200

Traces(rawFrom, rawTo, rawLimit, rawEnv, rawService, queryOK) ==
    LET range == parseRange(rawFrom, rawTo, now)
        limit == parseLimit(rawLimit, TracesLimit)
        env == sanitize(rawEnv)
        service == sanitize(rawService)
        filters == (IF env # <<>> THEN <<Filter("env", env)>> ELSE <<>>)
                       \o (IF service # <<>> THEN <<Filter("root_service", service)>> ELSE <<>>)
        sql == [table |-> "traces", from |-> chTime(range.from), to |-> chTime(range.to),
                filters |-> filters, limit |-> limit]
    IN /\ api' = [call |-> "Traces",
                  texts |-> [env |-> rawEnv, service |-> rawService],
                  queries |-> <<sql>>,
                  status |-> IF queryOK THEN 200 ELSE 502,
                  body |-> IF queryOK THEN "data" ELSE "error"]
       /\ op' = "api"
       /\ UNCHANGED <<traces, now, token, hist, out, resp, cp, store, proc>>

\* strings.TrimPrefix(path, "/v1/traces/"); the prefix is the path's first piece.
trimPrefix(path) == IF path # <<>> /\ Head(path) = "/v1/traces/" THEN Tail(path) ELSE path

RECURSIVE trimSlashLeft(_)
trimSlashLeft(v) == IF v # <<>> /\ Head(v) = "/" THEN trimSlashLeft(Tail(v)) ELSE v

RECURSIVE trimSlashRight(_)
trimSlashRight(v) ==
    IF v # <<>> /\ v[Len(v)] = "/" THEN trimSlashRight(SubSeq(v, 1, Len(v) - 1)) ELSE v

\* strings.Trim(v, "/")
trimSlashes(v) == trimSlashRight(trimSlashLeft(v))

\* strings.Split(v, "/")
RECURSIVE splitSlash(_)
splitSlash(v) ==
    IF \A i \in DOMAIN v : v[i] # "/" THEN <<v>>
    ELSE LET i == CHOOSE i \in DOMAIN v : v[i] = "/" /\ \A j \in 1..(i - 1) : v[j] # "/"
         IN <<SubSeq(v, 1, i - 1)>> \o splitSlash(SubSeq(v, i + 1, Len(v)))

\* strings.ToLower, piece by piece
toLower(v) == [i \in DOMAIN v |-> IF v[i] = "A" THEN "a" ELSE v[i]]

TraceByID(path, queryErr) ==
    LET tail == trimSlashes(trimPrefix(path))
        parts == splitSlash(tail)
        id == sanitize(parts[1])
        mode == IF Len(parts) > 1 THEN toLower(trimSpace(parts[2])) ELSE <<>>
        traceSQL == [table |-> "traces", filters |-> <<Filter("trace_id", id)>>]
        spanSQL == [table |-> "spans", filters |-> <<Filter("trace_id", id)>>]
        reply(queries, status, body) ==
            [call |-> "TraceByID", texts |-> [path |-> path], queries |-> queries,
             status |-> status, body |-> body]
    IN /\ api' = IF tail = <<>> THEN reply(<<>>, 400, "invalid trace id")
                 ELSE IF id = <<>> THEN reply(<<>>, 400, "invalid trace id")
                 ELSE IF queryErr = "trace" THEN reply(<<traceSQL>>, 502, "error")
                 ELSE IF queryErr = "span" THEN reply(<<traceSQL, spanSQL>>, 502, "error")
                 ELSE IF mode = <<"waterfall">> \/ mode = <<"drilldown">>
                 THEN reply(<<traceSQL, spanSQL>>, 200, "drilldown")
                 ELSE reply(<<traceSQL, spanSQL>>, 200, "spans")
       /\ op' = "api"
       /\ UNCHANGED <<traces, now, token, hist, out, resp, cp, store, proc>>

(***************************************************************************)
(* DependencyDiff.  A service name is a text whose pieces are characters   *)
(* and the two characters "->" written as one piece.  Calls are whole      *)
(* numbers, p95_ms counts hundredths and error_rate ten-thousandths, the   *)
(* digits the queries round to.                                            *)
(***************************************************************************)
\* fmt.Sprintf("%s->%s", caller, callee)
arrowKey(row) == row.caller_service \o <<"->">> \o row.callee_service

\* strings.Split(k, "->")
RECURSIVE splitArrow(_)
splitArrow(k) ==
    IF \A i \in DOMAIN k : k[i] # "->" THEN <<k>>
    ELSE LET i == CHOOSE i \in DOMAIN k : k[i] = "->" /\ \A j \in 1..(i - 1) : k[j] # "->"
         IN <<SubSeq(k, 1, i - 1)>> \o splitArrow(SubSeq(k, i + 1, Len(k)))

edgeStats(row) == [Calls |-> row.calls, P95 |-> row.p95_ms, ErrorRate |-> row.error_rate]

\* The zero edgeStats a map lookup gives for a key it lacks.
NoStats == [Calls |-> 0, P95 |-> 0, ErrorRate |-> 0]

\* Lines 266-273: the map filled row by row, a later row replacing an earlier
\* one of the same key.
statsMap(rows) ==
    [k \in {arrowKey(rows[i]) : i \in DOMAIN rows} |->
        LET last == CHOOSE i \in DOMAIN rows :
                        /\ arrowKey(rows[i]) = k
                        /\ \A j \in DOMAIN rows : arrowKey(rows[j]) = k => j <= i
        IN edgeStats(rows[last])]

\* The absolute value of a whole number.
Abs(x) == IF x < 0 THEN 0 - x ELSE x

\* pctDelta as the fraction num/den, den positive.
pctDelta(base, cand) ==
    IF base = 0
    THEN (IF cand = 0 THEN [num |-> 0, den |-> 1] ELSE [num |-> 100, den |-> 1])
    ELSE [num |-> (cand - base) * 100, den |-> Abs(base)]

\* p > q and p >= n for fractions and a whole number n
pctGreater(p, q) == p.num * q.den > q.num * p.den
pctAtLeast(p, n) == p.num >= n * p.den

highIncrease(p) == pctAtLeast(p, 100)

\* Lines 285-318 for one key.
diffEdge(k, baseMap, candMap) ==
    LET parts == splitArrow(k)
        bok == k \in DOMAIN baseMap
        cok == k \in DOMAIN candMap
        b == IF bok THEN baseMap[k] ELSE NoStats
        c == IF cok THEN candMap[k] ELSE NoStats
        status == IF ~bok /\ cok THEN "new" ELSE IF bok /\ ~cok THEN "removed" ELSE "changed"
    IN [caller_service |-> parts[1], callee_service |-> parts[2], status |-> status,
        base_calls |-> b.Calls, cand_calls |-> c.Calls, call_diff |-> c.Calls - b.Calls,
        call_diff_pct |-> pctDelta(b.Calls, c.Calls),
        base_p95_ms |-> b.P95, cand_p95_ms |-> c.P95, p95_diff_ms |-> c.P95 - b.P95,
        base_error_rate |-> b.ErrorRate, cand_error_rate |-> c.ErrorRate,
        error_rate_diff |-> c.ErrorRate - b.ErrorRate,
        is_new_edge |-> status = "new", is_removed_edge |-> status = "removed",
        is_high_call_increase |-> highIncrease(pctDelta(b.Calls, c.Calls))]

\* Lines 320-322: an order sort.Slice may leave the edges in.
sortedByPct(edges) ==
    \A i \in DOMAIN edges : \A j \in DOMAIN edges :
        i < j => ~pctGreater(edges[j].call_diff_pct, edges[i].call_diff_pct)

DependencyDiff(rawFrom, rawTo, rawEnv, rawService, rawBase, rawCand, queryErr, baseRows, candRows) ==
    LET range == parseRange(rawFrom, rawTo, now)
        env == sanitize(rawEnv)
        service == sanitize(rawService)
        base == sanitize(rawBase)
        cand == sanitize(rawCand)
        commonWhere ==
            (IF env # <<>> THEN <<Filter("env", env)>> ELSE <<>>)
                \o (IF service # <<>>
                    THEN <<Filter("caller_service", service), Filter("callee_service", service)>>
                    ELSE <<>>)
        edgeSQL(version) ==
            [table |-> "dependency_edges_minute",
             from |-> chMinute(range.from), to |-> chMinute(range.to),
             filters |-> commonWhere
                            \o <<Filter("caller_version", version), Filter("callee_version", version)>>]
        baseMap == statsMap(baseRows)
        candMap == statsMap(candRows)
        keys == DOMAIN baseMap \cup DOMAIN candMap
        count(status) ==
            Cardinality({k \in keys : diffEdge(k, baseMap, candMap).status = status})
        reply(queries, status, body) ==
            [call |-> "DependencyDiff",
             texts |-> [env |-> rawEnv, service |-> rawService, base |-> rawBase, cand |-> rawCand],
             baseRows |-> baseRows, candRows |-> candRows,
             queries |-> queries, status |-> status, body |-> body]
    IN /\ IF base = <<>> \/ cand = <<>>
          THEN api' = reply(<<>>, 400, "base/cand are required")
          ELSE IF queryErr = "base" THEN api' = reply(<<edgeSQL(base)>>, 502, "error")
          ELSE IF queryErr = "cand"
          THEN api' = reply(<<edgeSQL(base), edgeSQL(cand)>>, 502, "error")
          ELSE \E order \in Perms(keys) :
                 LET edges == [i \in DOMAIN order |-> diffEdge(order[i], baseMap, candMap)]
                 IN /\ sortedByPct(edges)
                    /\ api' = reply(<<edgeSQL(base), edgeSQL(cand)>>, 200,
                                    [summary |-> [new_edges |-> count("new"),
                                                  removed_edges |-> count("removed"),
                                                  changed_edges |-> count("changed")],
                                     edges |-> edges])
       /\ op' = "api"
       /\ UNCHANGED <<traces, now, token, hist, out, resp, cp, store, proc>>

APIAt == 3 * Hour
APITicks == 2

RawTimes ==
    {AbsentParam, GarbageParam}
        \cup {RFC3339Param(APIAt + d) : d \in {0 - Hour, 0 - Hour + Ms(1), 0, Ms(1), Hour}}

ParseRange ==
    /\ \E rawFrom \in RawTimes, rawTo \in RawTimes :
          api' = [call |-> "parseRange", rawFrom |-> rawFrom, rawTo |-> rawTo, at |-> now,
                  range |-> parseRange(rawFrom, rawTo, now)]
    /\ op' = "api"
    /\ UNCHANGED <<traces, now, token, hist, out, resp, cp, store, proc>>

InitAPI == InitAt(APIAt)

AdvanceAPI == Tick(APIAt + Ms(APITicks))

NextAPI == ParseRange \/ AdvanceAPI

SpecAPI == InitAPI /\ [][NextAPI]_vars

(***************************************************************************)
(* The read API sent request strings of every shape.                       *)
(***************************************************************************)
Alphabet == {"a", "/", "'", " "}

MaxParamLen == 2
MaxPathLen == 3

Texts(n) == UNION {[1..k -> Alphabet] : k \in 0..n}

\* writeJSON or http.Error has written the response; the next request may come.
Respond ==
    /\ api.call # "none"
    /\ api' = NoCall
    /\ op' = "api"
    /\ UNCHANGED <<traces, now, token, hist, out, resp, cp, store, proc>>

TracesCall ==
    /\ api.call = "none"
    /\ \E rawEnv \in Texts(MaxParamLen), rawService \in Texts(MaxParamLen) :
        \E rawTo \in {AbsentParam, RFC3339Param(APIAt - Hour)} :
            \E rawLimit \in {AbsentLimit, GarbageLimit, LimitParam(LimitCeiling + 1)} :
                \E queryOK \in BOOLEAN :
                    Traces(AbsentParam, rawTo, rawLimit, rawEnv, rawService, queryOK)

TraceByIDCall ==
    /\ api.call = "none"
    /\ \E tail \in Texts(MaxPathLen) \cup {<<"a", "/", " ", "waterfall">>} :
        \E queryErr \in {"none", "trace", "span"} :
            TraceByID(<<"/v1/traces/">> \o tail, queryErr)

DiffTextCall ==
    /\ api.call = "none"
    /\ \E x \in Texts(MaxParamLen), y \in Texts(MaxParamLen) :
        \E queryErr \in {"none", "base", "cand"} :
            \/ DependencyDiff(AbsentParam, AbsentParam, x, y, <<"a">>, <<"/">>, queryErr, <<>>, <<>>)
            \/ DependencyDiff(AbsentParam, AbsentParam, <<>>, <<>>, x, y, queryErr, <<>>, <<>>)

NextSanitize == TracesCall \/ TraceByIDCall \/ DiffTextCall \/ Respond

SpecSanitize == InitAPI /\ [][NextSanitize]_vars

(***************************************************************************)
(* DependencyDiff given every answer of the store over three edges, two of *)
(* them between services with an arrow in the name.                        *)
(***************************************************************************)
MaxCalls == 2

DiffPairs ==
    {<<(<<"a">>), (<<"b">>)>>,
     <<(<<"a", "->", "b">>), (<<"b">>)>>,
     <<(<<"a">>), (<<"b", "->", "b">>)>>}

\* The row the inner query gives for an edge: one row per (caller, callee).
DiffRow(pair, calls) ==
    [caller_service |-> pair[1], callee_service |-> pair[2],
     calls |-> calls, p95_ms |-> 100 * calls, error_rate |-> 0]

\* The answers a query may give: rows of distinct edges in any order.
DiffAnswers ==
    UNION {Perms({DiffRow(pair, f[pair]) : pair \in DOMAIN f}) :
              f \in UNION {[P -> 1..MaxCalls] : P \in SUBSET DiffPairs}}

DiffRowsCall ==
    /\ api.call = "none"
    /\ \E baseRows \in DiffAnswers, candRows \in DiffAnswers :
          \E queryErr \in {"none", "base", "cand"} :
              DependencyDiff(AbsentParam, AbsentParam, <<>>, <<>>, <<"1">>, <<"2">>,
                             queryErr, baseRows, candRows)

NextDiff == DiffRowsCall \/ Respond

SpecDiff == InitAPI /\ [][NextDiff]_vars

(***************************************************************************)
(* buildTraceDrilldown.  The rows are the answer of the spans query of     *)
(* TraceByID for one trace, ordered by start_ts.  Of the answer the model  *)
(* follows critical_path, error_chains and, per waterfall entry, span_id,  *)
(* parent_span_id, is_critical, is_error and children.  A string made by   *)
(* fmt.Sprintf is the sequence of its parts.                               *)
(***************************************************************************)
\* Lines 654-684: the traceSpan of a row; an end before the start is raised
\* to the start (682-684).
traceSpanOf(row) ==
    [SpanID |-> row.span_id, ParentSpanID |-> row.parent_span_id, Service |-> row.service,
     IsError |-> row.is_error > 0,
     StartTime |-> parseCHTime(row.start_ts),
     EndTime |-> IF Before(parseCHTime(row.end_ts), parseCHTime(row.start_ts))
                 THEN parseCHTime(row.start_ts) ELSE parseCHTime(row.end_ts)]

\* Lines 685-687: byID, as the index of the span each id leads to; a later
\* row with the same id replaces an earlier one.
spanIndex(spans) ==
    [id \in {spans[i].SpanID : i \in DOMAIN spans} \ {""} |->
        CHOOSE i \in DOMAIN spans :
            spans[i].SpanID = id /\ \A j \in DOMAIN spans : spans[j].SpanID = id => j <= i]

\* Line 693: the span is appended to the Children of its parent.
attached(spans, i) ==
    spans[i].ParentSpanID # "" /\ spans[i].ParentSpanID \in DOMAIN spanIndex(spans)

\* Lines 692-698
drillChildren(spans, i) ==
    {j \in DOMAIN spans : attached(spans, j) /\ spanIndex(spans)[spans[j].ParentSpanID] = i}

drillRoots(spans) == {i \in DOMAIN spans : ~attached(spans, i)}

\* Lines 700-709: sort.Slice orders the nodes by StartTime and is not stable,
\* so any node with the earliest StartTime may come first.
earliest(spans, nodes) ==
    {n \in nodes : \A m \in nodes : ~Before(spans[m].StartTime, spans[n].StartTime)}

\* The nodes with any EndTime, latest or not.
anyEnd(spans, nodes) == nodes

\* Lines 871-876: the first node, in the sorted order, that no node ends after.
latestEnd(spans, nodes) ==
    {n \in nodes : \A m \in nodes : ~Before(spans[n].EndTime, spans[m].EndTime)}

\* Lines 864-878: the paths the loop can build from span i on.
RECURSIVE descend(_, _)
descend(spans, i) ==
    IF drillChildren(spans, i) = {} THEN {<<spans[i].SpanID>>}
    ELSE UNION {{<<spans[i].SpanID>> \o p : p \in descend(spans, c)} :
                c \in earliest(spans, latestEnd(spans, drillChildren(spans, i)))}

\* Lines 854-880: the paths markCriticalPath can return; nil is <<>>.
markCriticalPath(spans) ==
    IF drillRoots(spans) = {} THEN {<<>>}
    ELSE UNION {descend(spans, r) : r \in earliest(spans, drillRoots(spans))}

\* Line 886: fmt.Sprintf("%s(%s)", cur.Service, cur.SpanID)
errorLabel(span) == <<span.Service, "(", span.SpanID, ")">>

\* Lines 810-839: the waterfall entries; the order that sort.Slice gives
\* them is not followed.
waterfallOf(spans, criticalIDs) ==
    {[span_id |-> spans[i].SpanID, parent_span_id |-> spans[i].ParentSpanID,
      is_critical |-> spans[i].SpanID \in Range(criticalIDs),
      is_error |-> spans[i].IsError,
      children |-> {spans[c].SpanID : c \in drillChildren(spans, i)}] : i \in DOMAIN spans}

\* The longest error path the model lets buildErrorPath build.
MaxErrorPath == 4

DrillIDs == <<"s1", "s2", "s3">>

DrillServices == <<"svc-a", "svc-b", "svc-c">>

DrillParents == {"", "s1", "s2", "s3", "zz"}

\* The start_ts of the three rows, in the order of the query.
DrillStarts == {<<1, 1, 1>>, <<1, 1, 2>>, <<1, 2, 2>>, <<2, 2, 2>>}

\* end_ts - start_ts of the three rows; the first may end before it starts.
DrillLengths == {-1, 0, 1} \X {0, 1} \X {0, 1}

\* Lines 108-149 for a path /v1/traces/<id>/drilldown whose queries succeed,
\* up to the loop of line 752.  cur = 0: buildErrorPath is not running.
TraceDrilldown(rows) ==
    LET spans == [i \in DOMAIN rows |-> traceSpanOf(rows[i])]
    IN /\ \E criticalIDs \in markCriticalPath(spans) :
            api' = [call |-> "drilldown", pc |-> "spans", spans |-> spans,
                    critical_path |-> criticalIDs,
                    todo |-> SelectSeq([i \in DOMAIN spans |-> i], LAMBDA i : spans[i].IsError),
                    cur |-> 0, path |-> <<>>, error_chains |-> <<>>, waterfall |-> {}]
       /\ op' = "api"
       /\ UNCHANGED <<traces, now, token, hist, out, resp, cp, store, proc>>

DrilldownCall ==
    /\ api.call = "none"
    /\ \E parent \in [DOMAIN DrillIDs -> DrillParents], start \in DrillStarts,
          length \in DrillLengths, failing \in {0} \cup DOMAIN DrillIDs :
          TraceDrilldown([i \in DOMAIN DrillIDs |->
              [span_id |-> DrillIDs[i], parent_span_id |-> parent[i],
               service |-> DrillServices[i], start_ts |-> start[i],
               end_ts |-> start[i] + length[i],
               is_error |-> IF i = failing THEN 1 ELSE 0]])

\* Lines 756-759 and 883-884: buildErrorPath is called for the next span
\* with is_error.
ErrorPathCall ==
    /\ api.call = "drilldown" /\ api.pc = "spans"
    /\ api.cur = 0 /\ api.todo # <<>>
    /\ api' = [api EXCEPT !.cur = Head(api.todo), !.path = <<>>]
    /\ op' = "api"
    /\ UNCHANGED <<traces, now, token, hist, out, resp, cp, store, proc>>

\* Lines 885-895: one turn of the loop of buildErrorPath; at a break the
\* chain is appended to errorChains (line 757).
ErrorPathTurn ==
    /\ api.call = "drilldown" /\ api.pc = "spans"
    /\ api.cur # 0
    /\ Len(api.path) < MaxErrorPath
    /\ LET cur == api.spans[api.cur]
           path == <<errorLabel(cur)>> \o api.path
       IN api' = IF cur.ParentSpanID = "" \/ cur.ParentSpanID \notin DOMAIN spanIndex(api.spans)
                 THEN [api EXCEPT !.cur = 0, !.path = <<>>, !.todo = Tail(@),
                                  !.error_chains =
                                      Append(@, [error_span_id |-> api.spans[Head(api.todo)].SpanID,
                                                 path |-> path])]
                 ELSE [api EXCEPT !.cur = spanIndex(api.spans)[cur.ParentSpanID],
                                  !.path = path]
    /\ op' = "api"
    /\ UNCHANGED <<traces, now, token, hist, out, resp, cp, store, proc>>

\* Lines 752-851: the loop over the spans is through and the answer is built.
DrilldownReturn ==
    /\ api.call = "drilldown" /\ api.pc = "spans"
    /\ api.cur = 0 /\ api.todo = <<>>
    /\ api' = [api EXCEPT !.pc = "done",
                          !.waterfall = waterfallOf(api.spans, api.critical_path)]
    /\ op' = "api"
    /\ UNCHANGED <<traces, now, token, hist, out, resp, cp, store, proc>>

\* Lines 150-158: writeJSON has written the answer.
DrilldownRespond == api.call = "drilldown" /\ api.pc = "done" /\ Respond

NextDrill ==
    DrilldownCall \/ ErrorPathCall \/ ErrorPathTurn \/ DrilldownReturn \/ DrilldownRespond

SpecDrill == InitAPI /\ [][NextDrill]_vars

(***************************************************************************)
(* Properties.                                                             *)
(***************************************************************************)

\* C1: when a store insert issued by FlushNow fails, the traces that flush
\* selected are still in the trace map afterwards, unchanged, so that the next
\* FlushNow submits their rows again.
C1_FailedFlushKeepsTraces ==
    [][(op' = "flush" /\ out'.failed # {}) =>
          \A id \in DOMAIN traces :
              ~(now - traces[id].updatedAt < Window) =>
                  id \in DOMAIN traces' /\ traces'[id] = traces[id]]_vars

\* C2: an IngestLogs whose raw_logs insert fails answers 502 and leaves the
\* trace map as it was.
C2_FailedInsertNoAdd ==
    [][(op' = "ingest" /\ resp'.rawInsert = "failed") =>
          (resp'.status = 502 /\ traces' = traces)]_vars

\* C2 witness: a request was refused with 502 while traces were resident.
C2_Witness == op = "ingest" /\ resp.rawInsert = "failed" /\ DOMAIN traces # {}

\* C4: a FlushNow at time now leaves resident exactly the traces with
\* now - updated_at < window, each with its span states untouched.
C4_FlushRemovesExactlyAged ==
    [][op' = "flush" =>
          /\ DOMAIN traces' = {id \in DOMAIN traces : now - traces[id].updatedAt < Window}
          /\ \A id \in DOMAIN traces' : traces'[id] = traces[id]]_vars

\* C4 witness: a flush that emitted a trace and left another one resident.
C4_Witness == op = "flush" /\ out.traces # {} /\ DOMAIN traces # {}

\* C5: every span row a flush emits has start_ts <= end_ts.
C5_StartNotAfterEnd == \A r \in out.spans : r.StartTS <= r.EndTS

\* C10: every span row a flush emits has 0 <= self_time_ms <= duration_ms
\* (as unsigned 32-bit numbers).
C10_SelfTimeWithinDuration ==
    \A r \in out.spans : U32Le(0, r.SelfTimeMs) /\ U32Le(r.SelfTimeMs, r.DurationMs)

\* C10 witness: a row was emitted for a span whose children last longer, in
\* sum, than the span itself.
C10_Witness ==
    \E r \in out.spans :
        \E c \in out.spans :
            /\ c.TraceID = r.TraceID /\ c.ParentSpanID = r.SpanID /\ c.SpanID # r.SpanID
            /\ U32Lt(r.DurationMs, c.DurationMs)

\* The events of the set h in ascending order of their indexes.
RECURSIVE ascending(_)
ascending(h) ==
    IF h = {} THEN <<>>
    ELSE LET i == CHOOSE x \in h : \A y \in h : x <= y
         IN <<i>> \o ascending(h \ {i})

\* The trace state Add builds when it folds the events h of one trace in
\* ascending order of their indexes: one fixed order to compare any order with.
Canonical(id, h) ==
    LET q == ascending(h)
    IN Add(EmptyMap, [i \in 1..Len(q) |-> ToRaw(Events[q[i]], now).row],
                     [i \in 1..Len(q) |-> ToRaw(Events[q[i]], now).ts])[id]

CanonicalTraces == [id \in DOMAIN traces |-> Canonical(id, hist[id])]

\* Two events agree when they are of different spans, or give the same values
\* to the fields Add takes from the first or from the last event; an empty
\* parentSpanId and a zero durationMs or statusCode agree with every value.
Agree(i, j) ==
    LET a == ToRaw(Events[i], now)
        b == ToRaw(Events[j], now)
    IN \/ a.row.TraceID # b.row.TraceID
       \/ /\ a.row.Env = b.row.Env
          /\ \/ spanIDOf(a.row, a.ts) # spanIDOf(b.row, b.ts)
             \/ /\ a.row.Service = b.row.Service
                /\ a.row.Host = b.row.Host
                /\ a.row.Version = b.row.Version
                /\ chooseOperation(a.row.Route, a.row.Message)
                      = chooseOperation(b.row.Route, b.row.Message)
                /\ "" \in {a.row.ParentSpanID, b.row.ParentSpanID}
                      \/ a.row.ParentSpanID = b.row.ParentSpanID
                /\ 0 \in {a.row.DurationMs, b.row.DurationMs}
                      \/ a.row.DurationMs = b.row.DurationMs
                /\ 0 \in {a.row.StatusCode, b.row.StatusCode}
                      \/ a.row.StatusCode = b.row.StatusCode

Agreeing(h) == \A i, j \in h : Agree(i, j)

\* C3, as claimed: whatever the order in which Add folded the events of the
\* resident traces, the rows a flush emits are rows that the flush emits when
\* the same events are folded in the fixed ascending order.
C3_AnyOrderSameRows ==
    [][op' = "flush" =>
          \E pick \in Picks(CanonicalTraces, Aged(traces, now), now) :
              Emitted(pick) = [spans |-> out'.spans, traces |-> out'.traces,
                               edges |-> out'.edges]]_vars

\* C3, amended: when the events folded into a trace agree, the trace state is
\* the one the fixed ascending order builds, whatever the order they came in;
\* the rows of a flush are computed from that state alone.
C3_AgreeingOrderIndependent ==
    \A id \in DOMAIN traces : Agreeing(hist[id]) => traces[id] = Canonical(id, hist[id])

\* C3 witness: three agreeing events are folded into one trace, two of them
\* into the same span with different end instants.
C3_Witness ==
    \E id \in DOMAIN traces :
        /\ Cardinality(hist[id]) >= 3
        /\ Agreeing(hist[id])
        /\ \E i, j \in hist[id] :
              /\ i # j
              /\ Events[i].SpanID = Events[j].SpanID
              /\ Events[i].Timestamp # Events[j].Timestamp
              /\ Events[i].Event # "start" /\ Events[j].Event # "start"

\* The span rows a flush emitted for the trace of trace row t.
RowsOf(t) == {r \in out.spans : r.TraceID = t.TraceID}

\* C6: for every trace row a flush emits, critical_path_ms is at least the
\* duration_ms of each span row of that trace.
C6_CriticalAtLeastEverySpan ==
    \A t \in out.traces : \A r \in RowsOf(t) : U32Le(r.DurationMs, t.CriticalPathMs)

\* A trace row t of exactly two spans that are each other's parent.
TwoCycle(t, a, b) ==
    /\ RowsOf(t) = {a, b}
    /\ a.SpanID # b.SpanID
    /\ a.ParentSpanID = b.SpanID
    /\ b.ParentSpanID = a.SpanID

ScenarioFlushed ==
    /\ op' = "flush"
    /\ "S" \in DOMAIN hist
    /\ hist["S"] = ScenarioIndexes
    /\ "S" \notin DOMAIN traces'

\* What C9 states of the scenario's rows, but for critical_path_ms: one trace
\* row with duration_ms 100, two spans and two services, and one edge
\* svc-a -> svc-b with one call and p50 = p95 = 60.
ScenarioRows(o, critical) ==
    /\ \E t \in o.traces :
          /\ o.traces = {t}
          /\ t.TraceID = "S"
          /\ t.DurationMs = 100 /\ t.SpanCount = 2 /\ t.ServiceCount = 2
          /\ t.CriticalPathMs = critical
    /\ \E e \in o.edges :
          /\ o.edges = {e}
          /\ e.CallerService = "svc-a" /\ e.CalleeService = "svc-b"
          /\ e.Calls = 1 /\ e.P50Ms = 60 /\ e.P95Ms = 60

\* C9, as claimed: the scenario is flushed with critical_path_ms = 100.
C9_ScenarioCritical100 == [][ScenarioFlushed => ScenarioRows(out', 100)]_vars

\* C9, amended: the scenario is flushed with critical_path_ms = 160, the sum
\* of the durations of s1 and of its child s2.
C9_ScenarioCritical160 == [][ScenarioFlushed => ScenarioRows(out', 160)]_vars

\* C9 witness: the trace S was flushed as two span rows.
C9_Witness ==
    /\ op = "flush"
    /\ \E t \in out.traces :
          /\ t.TraceID = "S" /\ t.SpanCount = 2 /\ t.DurationMs = 100
          /\ \E a, b \in RowsOf(t) :
                /\ a.SpanID = "s1" /\ a.Source = "explicit" /\ a.DurationMs = 100
                /\ a.StartTS = BaseMs /\ a.EndTS = BaseMs + 100
                /\ b.SpanID = "s2" /\ b.ParentSpanID = "s1" /\ b.Source = "explicit"
                /\ b.StartTS = BaseMs + 20 /\ b.EndTS = BaseMs + 80
                /\ b.DurationMs = 60

\* Every value criticalPath can return on the spans and children, over the
\* orders of its two range loops.
criticalPathResults(spans, children) ==
    {criticalPath(spans, children, o1, o2) :
        o1 \in Perms(seedsOf(spans)), o2 \in Perms(DOMAIN spans)}

\* C7: criticalPath returns, on every parent structure (self parents, cycles
\* of two and three spans, absent parents), and what it returns is a value
\* the memoized dfs yields for some order of the range loops.
C7_CriticalPathTerminates ==
    /\ <>(cp.pc = "done")
    /\ [](cp.pc = "done" => cp.best \in criticalPathResults(cp.spans, cp.children))

\* C7 witness: criticalPath returned on a cycle of three spans.
C7_Witness ==
    /\ cp.pc = "done"
    /\ cp.spans["s1"].ParentSpanID = "s3"
    /\ cp.spans["s3"].ParentSpanID = "s2"
    /\ cp.spans["s2"].ParentSpanID = "s1"

\* The tables of the store st.
TablesOf(st) ==
    [spans |-> st.spans, traces |-> st.traces,
     dependency_edges_minute |-> st.dependency_edges_minute]

\* The tables after the batch was ingested once and flushed at nowT.
OnceTables(nowT) ==
    LET q == TwiceBatch.entries
        tr == Add(EmptyMap, [i \in 1..Len(q) |-> ToRaw(Events[q[i]], nowT).row],
                            [i \in 1..Len(q) |-> ToRaw(Events[q[i]], nowT).ts])
    IN {TablesOf(Inserted(EmptyStore(TRUE), Emitted(pick), {})) :
           pick \in Picks(tr, DOMAIN tr, nowT)}

\* C11: once the store accepted the batch twice (or more) and every trace was
\* flushed, its spans, traces and dependency_edges_minute tables hold, key by
\* key, the rows they hold after the batch was ingested and flushed once.
C11_TwiceSameAsOnce ==
    (Copies >= 2 /\ traces = EmptyMap) => TablesOf(store) \in OnceTables(now)

\* The keys of the parent -> child pairs among the span rows a flush emitted:
\* the child names a parent that is a row of the same trace and of another
\* service.
PairKeys(o) ==
    {<<s.StartTS \div MsPerMinute, s.Env, p.Service, s.Service, p.Version, s.Version>> :
        <<p, s>> \in {x \in o.spans \X o.spans :
                         /\ x[2].ParentSpanID # ""
                         /\ x[1].TraceID = x[2].TraceID
                         /\ x[1].SpanID = x[2].ParentSpanID
                         /\ x[1].Service # x[2].Service}}

\* C12: a flush emits exactly one dependency-edge row for each key that a
\* parent -> child pair of different services among its span rows has, and no
\* row for any other key.
C12_EdgeIffPair ==
    /\ {<<e.BucketTS, e.Env, e.CallerService, e.CalleeService, e.CallerVersion,
          e.CalleeVersion>> : e \in out.edges} = PairKeys(out)
    /\ Cardinality(out.edges) = Cardinality(PairKeys(out))

\* C12 witness: a flush emitted an edge row, and also a span that names
\* itself as parent and a span whose parent is not in the trace.
C12_Witness ==
    /\ out.edges # {}
    /\ \E r \in out.spans : r.ParentSpanID = r.SpanID
    /\ \E r \in out.spans :
          /\ r.ParentSpanID # ""
          /\ \A q \in out.spans : q.SpanID # r.ParentSpanID

\* C13: an ingest request is answered 200 only if at least one of its events
\* was accepted.
C13_OkOnlyIfAccepted == resp.status = 200 => resp.accepted >= 1

\* C14: the errors array of an ingest response holds at most 100 entries.
C14_ErrorsCapped == Len(resp.errors) <= MaxReportedErrors

\* The header is missing, is not of the Bearer scheme, or carries another
\* token than tok (the white space around the token set aside).
Unauthorized(header, tok) ==
    \/ header = <<"">>
    \/ header[1] \notin {"Bearer", "bearer", "BEARER"}
    \/ Len(header) < 2
    \/ TrimSpace(Tail(header)) # <<tok>>

\* C15: with a token configured, a POST with such a header is answered 401,
\* issues no raw_logs insert and leaves the trace map as it was; with no token
\* configured the step of a request is also the step of the same request
\* with any other header.
C15_BearerRequired ==
    [][\A req \in AuthRequests : \A insertOK \in BOOLEAN :
          IngestLogs(req, insertOK) =>
             /\ (token # "" /\ req.method = "POST" /\ Unauthorized(req.authorization, token))
                   => (resp'.status = 401 /\ resp'.rawInsert = "none" /\ traces' = traces)
             /\ token = "" =>
                   \A h \in AuthHeaders :
                       IngestLogs([req EXCEPT !.authorization = h], insertOK)]_vars

\* C15 witness: a request was refused with 401 while traces were resident.
C15_Witness == op = "ingest" /\ resp.status = 401 /\ token = "tok" /\ DOMAIN traces # {}

\* C16: main exits by a FlushNow that starts after srv.Shutdown returned, and
\* that FlushNow leaves in memory exactly the traces younger than the window,
\* as they were.
C16_DrainThenAgedFlush ==
    [][(proc'.main = "exited" /\ proc.main # "exited") =>
          /\ proc.main = "drained"
          /\ op' = "flush"
          /\ DOMAIN traces' = {id \in DOMAIN traces : now - traces[id].updatedAt < Window}
          /\ \A id \in DOMAIN traces' : traces'[id] = traces[id]]_vars

\* C16 witness: the process exited with a trace flushed by the last FlushNow
\* and a younger one left in memory.
C16_Witness ==
    /\ proc.main = "exited"
    /\ op = "flush"
    /\ out.traces # {}
    /\ DOMAIN traces # {}

\* C17: parseRange returns [now-1h, now] when from and to are both missing
\* and when the window read from the request has from >= to, and the from it
\* returns is before the to it returns.
C17_InvalidWindowIsLastHour ==
    api.call = "parseRange" =>
        LET w == rangeRead(api.rawFrom, api.rawTo, api.at)
            lastHour == [from |-> api.at - Hour, to |-> api.at]
        IN /\ (api.rawFrom.empty /\ api.rawTo.empty) => api.range = lastHour
           /\ w.from >= w.to => api.range = lastHour
           /\ api.range.from < api.range.to

\* A text of one piece or more, every piece in the class [A-Za-z0-9._:/-].
Whitelisted(v) == v # <<>> /\ \A i \in DOMAIN v : v[i] \in SafeChars

\* The columns the queries of the last call filter by a request string.
FilteredColumns == {f.col : f \in UNION {Range(q.filters) : q \in Range(api.queries)}}

\* The request string failed: trimmed of white space it is not whitelisted.
Failed(v) == ~Whitelisted(trimSpace(v))

\* C18: every request string in a query of Traces, TraceByID and
\* DependencyDiff is non-empty and made of [A-Za-z0-9._:/-] only, and is the
\* trimmed parameter; an optional parameter that fails gives no clause, a
\* required one gives status 400 and no query.
C18_OnlySanitizedInSQL ==
    api.call \in {"Traces", "TraceByID", "DependencyDiff"} =>
        /\ \A q \in Range(api.queries) : \A f \in Range(q.filters) : Whitelisted(f.val)
        /\ api.call = "Traces" =>
              /\ Failed(api.texts.env) => "env" \notin FilteredColumns
              /\ Failed(api.texts.service) => "root_service" \notin FilteredColumns
              /\ \A f \in Range(api.queries[1].filters) :
                    f.val = trimSpace(IF f.col = "env" THEN api.texts.env ELSE api.texts.service)
        /\ api.call = "TraceByID" =>
              LET first == splitSlash(trimSlashes(Tail(api.texts.path)))[1]
              IN /\ Failed(first) => api.status = 400 /\ api.queries = <<>>
                 /\ \A q \in Range(api.queries) : q.filters = <<Filter("trace_id", trimSpace(first))>>
        /\ api.call = "DependencyDiff" =>
              /\ Failed(api.texts.base) \/ Failed(api.texts.cand) =>
                    api.status = 400 /\ api.queries = <<>>
              /\ Failed(api.texts.env) => "env" \notin FilteredColumns
              /\ Failed(api.texts.service) =>
                    FilteredColumns \cap {"caller_service", "callee_service"} = {}

\* C18 witness: Traces answered 200 to an env of a letter and a quote and a
\* service with a leading blank: one clause, for the trimmed service.
C18_Witness ==
    /\ api.call = "Traces"
    /\ api.status = 200
    /\ api.texts = [env |-> <<"a", "'">>, service |-> <<" ", "a">>]
    /\ api.queries[1].filters = <<Filter("root_service", <<"a">>)>>

\* The (caller, callee) edges of an answer of the store.
PairsOf(rows) == {<<rows[i].caller_service, rows[i].callee_service>> : i \in DOMAIN rows}

\* C19: in the answer of DependencyDiff every (caller, callee) edge of the
\* base or the candidate rows is there exactly once, new when the base lacks
\* it, removed when the candidate lacks it, else changed; the three counts of
\* the summary add up to the number of distinct edges; is_high_call_increase
\* is true exactly when call_diff_pct is 100 or more.
C19_EveryEdgeOnce ==
    (api.call = "DependencyDiff" /\ api.status = 200) =>
        LET inBase == PairsOf(api.baseRows)
            inCand == PairsOf(api.candRows)
            edges == api.body.edges
            at(pair) == {i \in DOMAIN edges :
                            /\ edges[i].caller_service = pair[1]
                            /\ edges[i].callee_service = pair[2]}
        IN /\ \A pair \in inBase \cup inCand :
                 /\ Cardinality(at(pair)) = 1
                 /\ \A i \in at(pair) :
                       edges[i].status = IF pair \notin inBase THEN "new"
                                         ELSE IF pair \notin inCand THEN "removed"
                                         ELSE "changed"
           /\ Len(edges) = Cardinality(inBase \cup inCand)
           /\ api.body.summary.new_edges + api.body.summary.removed_edges
                  + api.body.summary.changed_edges = Cardinality(inBase \cup inCand)
           /\ \A i \in DOMAIN edges :
                 edges[i].is_high_call_increase
                     <=> edges[i].call_diff_pct.num >= 100 * edges[i].call_diff_pct.den

\* A FlushNow has started to select and its inserts have not returned yet.
Flushing == proc.flush.pc = "select"

\* C20: while a FlushNow is between the start of its selection and the return
\* of its inserts, no Add is inside its loop and no step of Add changes the
\* trace map; when the inserts return the map is the map the flush found less
\* the traces aged at its clock reading, so an Add called meanwhile has folded
\* none of its rows yet.
C20_AddNeverInsideFlush ==
    [][/\ Flushing => proc.add.pc # "fold"
       /\ (Flushing /\ traces' # traces) => (proc'.add = proc.add /\ proc'.flush # proc.flush)
       /\ (Flushing /\ proc'.flush.pc = "unlock") =>
             /\ traces' = Without(proc.flush.snap, Aged(proc.flush.snap, proc.flush.at))
             /\ DOMAIN proc.flush.pick = Aged(proc.flush.snap, proc.flush.at)]_vars

\* C20 witness: an Add was called and waits at the lock while a FlushNow has
\* taken one trace from the map and has another still to visit.
C20_Witness ==
    /\ proc.add.pc = "lock"
    /\ proc.add.rows # <<>>
    /\ proc.flush.pc = "select"
    /\ proc.flush.pick # EmptyMap
    /\ proc.flush.todo # {}

\* The rows of S that the row r names as its parent.
ParentIn(S, r) == {p \in S : p.SpanID = r.ParentSpanID}

\* The rows of S within n parent references above the row r.
RECURSIVE AncestorsWithin(_, _, _)
AncestorsWithin(S, r, n) ==
    IF n = 0 THEN {}
    ELSE ParentIn(S, r) \cup UNION {AncestorsWithin(S, p, n - 1) : p \in ParentIn(S, r)}

\* No row of S is above itself.
Acyclic(S) == \A r \in S : r \notin AncestorsWithin(S, r, Cardinality(S))

\* The largest member of a non-empty set of numbers.
Largest(N) == CHOOSE n \in N : \A m \in N : m <= n

\* The largest sum of duration_ms along a path from the row r down to a leaf.
RECURSIVE LongestDown(_, _)
LongestDown(S, r) ==
    r.DurationMs + Largest({0} \cup {LongestDown(S, c) : c \in {c \in S : c.ParentSpanID = r.SpanID}})

\* C21: the trace row of a trace whose parent references have no cycle has
\* critical_path_ms = the largest, over the spans whose parent is empty or
\* not a span of the trace, of the largest sum of duration_ms from that span
\* down to a leaf.
C21_CriticalIsLongestRootToLeaf ==
    \A t \in out.traces :
        Acyclic(RowsOf(t)) =>
            t.CriticalPathMs =
                Largest({LongestDown(RowsOf(t), r) : r \in {r \in RowsOf(t) : ParentIn(RowsOf(t), r) = {}}})

\* A flush emitted a trace without a cycle that has two roots of different
\* durations and nothing else.
TwoRoots ==
    \E t \in out.traces :
        /\ Acyclic(RowsOf(t))
        /\ \A c \in RowsOf(t) : ParentIn(RowsOf(t), c) = {}
        /\ \E a \in RowsOf(t), b \in RowsOf(t) : a.DurationMs < b.DurationMs

\* C21 witness: a flush emitted a trace of a root, its child and its
\* grandchild, whose critical path is the sum of the three durations.
C21_Witness ==
    \E t \in out.traces :
        /\ Acyclic(RowsOf(t))
        /\ \E a \in RowsOf(t), b \in RowsOf(t), c \in RowsOf(t) :
              /\ a.ParentSpanID = "" /\ b.ParentSpanID = a.SpanID /\ c.ParentSpanID = b.SpanID
              /\ a.DurationMs > 0 /\ b.DurationMs > 0 /\ c.DurationMs > 0
              /\ t.CriticalPathMs = a.DurationMs + b.DurationMs + c.DurationMs

\* C22: a step of Add leaves alone the parent_span_id of a span that has a
\* non-empty one, and likewise its service, version, host and operation.
C22_ParentOnlyWhileEmpty ==
    [][\A id \in DOMAIN traces \cap DOMAIN traces' :
         \A sid \in DOMAIN traces[id].spans \cap DOMAIN traces'[id].spans :
            LET a == traces[id].spans[sid]
                b == traces'[id].spans[sid]
            IN /\ a.parentSpanID # "" => b.parentSpanID = a.parentSpanID
               /\ a.service # "" => b.service = a.service
               /\ a.version # "" => b.version = a.version
               /\ a.host # "" => b.host = a.host
               /\ a.operation # "" => b.operation = a.operation]_vars

\* C30: a flush emits every span with the timestamps its events set: a
\* start_ts that is not zero in the span's state is the row's start_ts, and
\* an end_ts that is not zero and not before a start the events set is the
\* row's end_ts, also when the span has no start event and no durationMs.
C30_EventTimestampsKept ==
    [][\A id \in DOMAIN traces \ DOMAIN traces' :
         \A sid \in DOMAIN traces[id].spans :
            LET s == traces[id].spans[sid]
            IN \A r \in {r \in out'.spans : r.TraceID = id /\ r.SpanID = sid} :
                  /\ ~IsZero(s.startTs) => r.StartTS = FormatCHTime(s.startTs)
                  /\ (~IsZero(s.endTs) /\ (IsZero(s.startTs) \/ s.startTs <= s.endTs))
                        => r.EndTS = FormatCHTime(s.endTs)]_vars

\* The sum, in uint32, of the duration_ms of the rows the flush emitted for
\* the direct children of the row r.
RECURSIVE SumDurations(_)
SumDurations(R) ==
    IF R = {} THEN 0
    ELSE LET c == CHOOSE x \in R : TRUE
         IN U32Add(c.DurationMs, SumDurations(R \ {c}))

ChildRows(r) == {c \in out.spans : c.TraceID = r.TraceID /\ c.ParentSpanID = r.SpanID}

\* C23: every emitted span has self_time_ms = duration_ms - S when the sum S
\* of its direct children's duration_ms is at most duration_ms (0 when they
\* are equal), and self_time_ms = duration_ms when S is larger.
C23_SelfTimeIsDurationLessChildren ==
    \A r \in out.spans :
        r.SelfTimeMs = IF SumDurations(ChildRows(r)) <= r.DurationMs
                       THEN r.DurationMs - SumDurations(ChildRows(r))
                       ELSE r.DurationMs

\* C29: the child total a flush subtracts for a span is the sum of the
\* duration_ms it emitted for the span's direct children, whatever the order
\* in which it finalized the spans: self_time_ms is what lines 249-252 make
\* of duration_ms and that sum.
C29_ChildTotalIsEmittedSum ==
    \A r \in out.spans :
        r.SelfTimeMs = selfTimeOf(r.DurationMs, SumDurations(ChildRows(r)))

\* The event entries of a body: the array elements, the NDJSON lines that
\* are not blank, the one object.
EntriesOf(body) == Len(SelectSeq(body.entries, LAMBDA x : x # BlankLine))

\* C26: the response to a readable body of events, when its status is 200 or
\* 400, has accepted + rejected = the number of event entries of the body.
C26_EveryEntryCountedOnce ==
    [][\A req \in Requests :
         \A insertOK \in BOOLEAN :
            (/\ req.gzipOK
             /\ req.body.form \in {"single", "array", "ndjson"}
             /\ Room(req, MaxEvents)
             /\ IngestLogs(req, insertOK)
             /\ resp'.status \in {200, 400})
                => resp'.accepted + resp'.rejected = EntriesOf(req.body)]_vars

\* The span id Add files the event e under.
FiledUnder(e) == spanIDOf(ToRaw(Events[e], now).row, ToRaw(Events[e], now).ts)

\* C27: whatever the interleaving of Add and FlushNow, every resident trace
\* holds at least one span and a span state for every event folded into it;
\* no span leaves a trace that stays resident; a trace leaves the map only
\* in the step that builds a row for each of its span states; the flush
\* writes every row it built; and an event for a trace id that is not
\* resident, flushed before or not, starts a trace state of its one span.
C27_FoldedEventsFlushedOnce ==
    [][/\ \A id \in DOMAIN traces' :
            /\ DOMAIN traces'[id].spans # {}
            /\ id \in DOMAIN hist'
            /\ \A e \in hist'[id] : FiledUnder(e) \in DOMAIN traces'[id].spans
       /\ \A id \in DOMAIN traces \cap DOMAIN traces' :
            DOMAIN traces[id].spans \subseteq DOMAIN traces'[id].spans
       /\ \A id \in DOMAIN traces \ DOMAIN traces' :
            /\ proc'.flush.pc = "select"
            /\ id \in DOMAIN proc'.flush.pick \ DOMAIN proc.flush.pick
            /\ {r.SpanID : r \in Range(proc'.flush.pick[id].spans)} = DOMAIN traces[id].spans
       /\ (proc.flush.pc = "select" /\ proc'.flush.pc = "unlock") =>
            /\ proc'.flush.pick = proc.flush.pick
            /\ out'.spans = UNION {Range(proc.flush.pick[id].spans) : id \in DOMAIN proc.flush.pick}
       /\ \A id \in DOMAIN traces' \ DOMAIN traces :
            /\ proc.add.pc = "fold" /\ proc.add.rows # <<>>
            /\ Head(proc.add.rows).TraceID = id
            /\ hist'[id] = {Head(proc.add.idx)}
            /\ DOMAIN traces'[id].spans = {FiledUnder(Head(proc.add.idx))}]_vars

\* C27 witness: the store holds the span row a flush wrote for a trace, and
\* Add has folded a later event of the same trace id into a new trace state
\* while the next flush is waiting for the mutex.
C27_Witness ==
    /\ op = "add" /\ proc.mu = "add" /\ proc.flush.pc = "lock"
    /\ \E id \in DOMAIN traces :
          /\ \E k \in DOMAIN store.spans : k[4] = id
          /\ hist[id] # {}

\* C28: while Run is active, a trace that is resident is flushed and removed
\* in the end: no trace stays resident forever.
C28_ResidentTraceLeaves ==
    \A id \in {Events[e].CorrelationID : e \in UNION {Range(b) : b \in LockBatches}} :
        (id \in DOMAIN traces) ~> (id \notin DOMAIN traces)

\* C28 witness: a trace that was too fresh for the flush when the collector
\* started has left the map in a flush after the clock advanced.
C28_Witness ==
    /\ now > ShutdownAt
    /\ proc.flush.pc = "unlock"
    /\ \E t \in out.traces :
          /\ t.TraceID \notin DOMAIN traces
          /\ \E e \in UNION {Range(b) : b \in LockBatches} :
                /\ Events[e].CorrelationID = t.TraceID
                /\ ShutdownAt - Events[e].Timestamp < Window

\* The spans of the drill-down whose span_id is id.
Named(id) == {i \in DOMAIN api.spans : api.spans[i].SpanID = id}

\* The spans whose parent_span_id is id.
ChildrenOfID(id) == {i \in DOMAIN api.spans : api.spans[i].ParentSpanID = id}

\* The spans whose parent_span_id is empty or names no span of the rows.
RootSpans ==
    {i \in DOMAIN api.spans :
        api.spans[i].ParentSpanID = "" \/ Named(api.spans[i].ParentSpanID) = {}}

\* C24: the critical path of a drill-down is empty when the rows have no
\* root; else it starts at a root no root starts before, every next element
\* is a child of the one before that no child of it ends after, and the last
\* element has no children.  A waterfall entry has is_critical exactly when
\* its span_id is on the path.
C24_CriticalPathDescendsByLatestEnd ==
    (api.call = "drilldown" /\ api.pc = "done") =>
        LET path == api.critical_path
        IN /\ RootSpans = {} => path = <<>>
           /\ RootSpans # {} =>
                /\ path # <<>>
                /\ \E r \in Named(path[1]) \cap RootSpans :
                      \A q \in RootSpans : api.spans[r].StartTime <= api.spans[q].StartTime
                /\ \A k \in 1..(Len(path) - 1) :
                      \E c \in Named(path[k + 1]) \cap ChildrenOfID(path[k]) :
                          \A d \in ChildrenOfID(path[k]) :
                              api.spans[d].EndTime <= api.spans[c].EndTime
                /\ ChildrenOfID(path[Len(path)]) = {}
           /\ \A w \in api.waterfall :
                w.is_critical <=> \E k \in DOMAIN path : path[k] = w.span_id

\* C24 witness: the answer has a path of a root and one of its two children,
\* the one that ends after the other; the entries of the two spans on the
\* path are flagged and the entry of the other child is not.
C24_Witness ==
    /\ api.call = "drilldown" /\ api.pc = "done"
    /\ Len(api.critical_path) = 2
    /\ Cardinality(ChildrenOfID(api.critical_path[1])) = 2
    /\ \E c \in ChildrenOfID(api.critical_path[1]) :
          /\ api.spans[c].SpanID # api.critical_path[2]
          /\ \E n \in Named(api.critical_path[2]) :
                api.spans[c].EndTime < api.spans[n].EndTime
    /\ \E w \in api.waterfall : w.is_critical
    /\ \E w \in api.waterfall : ~w.is_critical

\* C25: buildErrorPath visits no more spans than the rows hold, also when
\* the parent references of the rows form a cycle: the path it is building
\* never has more elements than there are rows.
C25_ErrorPathVisitsEachSpanOnce ==
    api.call = "drilldown" => Len(api.path) <= Len(api.spans)

====
